---- MODULE Spec2Model ----
(***************************************************************************)
(* Model of the scoring engine of the virality simulator                   *)
(* (src/simulator/src): the WeightedScorer, AuthorDiversityScorer and      *)
(* OonScorer stages, ScoringPipeline::score over a batch of candidates,    *)
(* and the blending of action vectors in simulate_with_mode.               *)
(*                                                                         *)
(* f64 values are modelled as exact rationals <<n, d>> in lowest terms     *)
(* with d > 0, so the arithmetic of the model is the real arithmetic the   *)
(* floating-point code approximates; rounding error is outside the model.  *)
(* NaN is the pair <<0, 0>>: sums and products with it are NaN, every      *)
(* comparison with it is false.  No value of the model is infinite.        *)
(***************************************************************************)
EXTENDS Integers, Sequences, FiniteSets, TLC

VARIABLES pc, cfg, candidates, trace, wargs, wret, sim, out, state, req

vars == <<pc, cfg, candidates, trace, wargs, wret, sim, out, state, req>>

(***************************************************************************)
(* Rational arithmetic standing for f64 arithmetic.                        *)
(***************************************************************************)
Abs(x) == IF x < 0 THEN -x ELSE x

RECURSIVE GCD(_, _)
GCD(a, b) == IF b = 0 THEN a ELSE GCD(b, a % b)

\* A zero denominator arises only from a NaN operand of Add or Mul.
Rat(n, d) == IF d = 0 THEN <<0, 0>> ELSE LET g == GCD(Abs(n), d) IN <<n \div g, d \div g>>

NaN == <<0, 0>>

is_nan(a) == a[2] = 0

Zero == Rat(0, 1)

One == Rat(1, 1)

Whole(n) == Rat(n, 1)

Tenths(n) == Rat(n, 10)

Add(a, b) == Rat(a[1] * b[2] + b[1] * a[2], a[2] * b[2])

Neg(a) == <<-a[1], a[2]>>

Sub(a, b) == Add(a, Neg(b))

Mul(a, b) == Rat(a[1] * b[1], a[2] * b[2])

Lt(a, b) == a[1] * b[2] < b[1] * a[2]

Le(a, b) == a[2] # 0 /\ b[2] # 0 /\ a[1] * b[2] <= b[1] * a[2]

\* f64::max and f64::min return the other operand when one is NaN.
FMax(a, b) == IF is_nan(a) THEN b ELSE IF Lt(a, b) THEN b ELSE a

FMin(a, b) == IF is_nan(a) THEN b ELSE IF Lt(b, a) THEN b ELSE a

RECURSIVE powi(_, _)
powi(a, k) == IF k = 0 THEN One ELSE Mul(a, powi(a, k - 1))

RECURSIVE SumSeq(_)
SumSeq(s) == IF s = <<>> THEN Zero ELSE Add(SumSeq(SubSeq(s, 1, Len(s) - 1)), s[Len(s)])

(***************************************************************************)
(* Option<f64>: None is the empty tuple, Some(x) the one-element tuple.    *)
(***************************************************************************)
None == <<>>

Some(x) == <<x>>

(***************************************************************************)
(* ActionProbs (lib.rs) and ActionWeights (scoring/weighted.rs).           *)
(***************************************************************************)
ActionFields ==
    {"like", "reply", "repost", "quote", "click", "profile_click", "video_view",
     "photo_expand", "share", "share_dm", "share_link", "dwell", "follow_author",
     "quoted_click", "not_interested", "block", "mute", "report", "dwell_time"}

empty_actions == [f \in ActionFields |-> Zero]

DefaultWeights ==
    [favorite |-> Tenths(10), reply |-> Tenths(16), repost |-> Tenths(20),
     photo_expand |-> Tenths(3), click |-> Tenths(4), profile_click |-> Tenths(3),
     vqv |-> Tenths(5), share |-> Tenths(14), share_dm |-> Tenths(8),
     share_link |-> Tenths(6), dwell |-> Tenths(2), quote |-> Tenths(17),
     quoted_click |-> Tenths(5), follow_author |-> Tenths(12),
     not_interested |-> Tenths(-25), block |-> Tenths(-50), mute |-> Tenths(-30),
     report |-> Tenths(-60), dwell_time |-> Tenths(1)]

\* Weights a caller may configure instead: pairwise distinct, so that a term
\* multiplied by the wrong weight changes the sum.
TunedWeights ==
    [favorite |-> Tenths(11), reply |-> Tenths(13), repost |-> Tenths(21),
     photo_expand |-> Tenths(2), click |-> Tenths(4), profile_click |-> Tenths(3),
     vqv |-> Tenths(7), share |-> Tenths(15), share_dm |-> Tenths(9),
     share_link |-> Tenths(6), dwell |-> Tenths(1), quote |-> Tenths(17),
     quoted_click |-> Tenths(5), follow_author |-> Tenths(12),
     not_interested |-> Tenths(-25), block |-> Tenths(-50), mute |-> Tenths(-30),
     report |-> Tenths(-60), dwell_time |-> Tenths(8)]

(***************************************************************************)
(* ScoringConfig (config.rs): the parts the engine reads.                  *)
(***************************************************************************)
Config(w, thr, off, decay, floor, mult) ==
    [weights |-> w,
     weighted |-> [vqv_duration_threshold |-> thr, score_offset |-> off],
     diversity |-> [decay |-> decay, floor |-> floor],
     oon |-> [multiplier |-> mult]]

DefaultConfig ==
    Config(DefaultWeights, Whole(6), Whole(1), Tenths(7), Tenths(1), Tenths(8))

(***************************************************************************)
(* WeightedScorer (scoring/weighted.rs).                                   *)
(***************************************************************************)
\* The threshold test written with > instead of >=.
VqvCounts_Exclusive(c, video_duration) ==
    /\ video_duration # None
    /\ Lt(c.weighted.vqv_duration_threshold, video_duration[1])

\* if let Some(duration) = video_duration { if duration >= threshold { .. } }
VqvCounts(c, video_duration) ==
    /\ video_duration # None
    /\ Le(c.weighted.vqv_duration_threshold, video_duration[1])

\* The local `score` of WeightedScorer::score when it reaches the offset test.
RawScore(c, actions, video_duration) ==
    SumSeq(<<
        Mul(actions.like, c.weights.favorite),
        Mul(actions.reply, c.weights.reply),
        Mul(actions.repost, c.weights.repost),
        Mul(actions.photo_expand, c.weights.photo_expand),
        Mul(actions.click, c.weights.click),
        Mul(actions.profile_click, c.weights.profile_click),
        Mul(actions.share, c.weights.share),
        Mul(actions.share_dm, c.weights.share_dm),
        Mul(actions.share_link, c.weights.share_link),
        Mul(actions.dwell, c.weights.dwell),
        Mul(actions.quote, c.weights.quote),
        Mul(actions.quoted_click, c.weights.quoted_click),
        Mul(actions.follow_author, c.weights.follow_author),
        IF VqvCounts(c, video_duration)
            THEN Mul(actions.video_view, c.weights.vqv)
            ELSE Zero,
        Mul(actions.not_interested, c.weights.not_interested),
        Mul(actions.block, c.weights.block),
        Mul(actions.mute, c.weights.mute),
        Mul(actions.report, c.weights.report),
        Mul(actions.dwell_time, c.weights.dwell_time)
    >>)

\* The offset added a second time.
offset_score_Twice(c, score) ==
    Add(Add(score, c.weighted.score_offset), c.weighted.score_offset)

offset_score(c, score) == Add(score, c.weighted.score_offset)

ApplyOffset(c, score) == IF Lt(score, Zero) THEN offset_score(c, score) ELSE score

WeightedScorer_score(c, actions, video_duration) ==
    ApplyOffset(c, RawScore(c, actions, video_duration))

(***************************************************************************)
(* ScoredCandidate (scoring/pipeline.rs).                                  *)
(***************************************************************************)
ScoredCandidate_new(post_id, author_id, is_oon, video_duration, phoenix_scores) ==
    [post_id |-> post_id,
     author_id |-> author_id,
     is_oon |-> is_oon,
     video_duration |-> video_duration,
     phoenix_scores |-> phoenix_scores,
     weighted_score |-> Zero,
     diversity_multiplier |-> One,
     oon_multiplier |-> One,
     score |-> Zero]

(***************************************************************************)
(* AuthorDiversityScorer (scoring/diversity.rs).                           *)
(***************************************************************************)
\* The occurrence ignored: every candidate gets the multiplier of a first one.
multiplier_NoDecay(c, occurrence) ==
    Add(Mul(Sub(One, c.diversity.floor), powi(c.diversity.decay, 0)), c.diversity.floor)

\* The occurrence counted from one.
multiplier_OffByOne(c, occurrence) ==
    Add(Mul(Sub(One, c.diversity.floor), powi(c.diversity.decay, occurrence + 1)),
        c.diversity.floor)

multiplier(c, occurrence) ==
    LET decay_factor == powi(c.diversity.decay, occurrence)
    IN  Add(Mul(Sub(One, c.diversity.floor), decay_factor), c.diversity.floor)

\* The loop of AuthorDiversityScorer::score from position i on, author_counts
\* being the HashMap of occurrences seen so far.
RECURSIVE DiversityWalk(_, _, _, _)
DiversityWalk(c, batch, i, author_counts) ==
    IF i > Len(batch)
    THEN batch
    ELSE LET author == batch[i].author_id
             count == IF author \in DOMAIN author_counts THEN author_counts[author] ELSE 0
             m == multiplier(c, count)
             walked == [batch EXCEPT ![i].diversity_multiplier = m,
                                     ![i].score = Mul(batch[i].weighted_score, m)]
             counted == [a \in DOMAIN author_counts \cup {author} |->
                            IF a = author THEN count + 1 ELSE author_counts[a]]
         IN  DiversityWalk(c, walked, i + 1, counted)

AuthorDiversityScorer_score(c, batch) ==
    DiversityWalk(c, batch, 1, [a \in {} |-> 0])

(***************************************************************************)
(* OonScorer (scoring/oon.rs).                                             *)
(***************************************************************************)
\* The discount taken from weighted_score instead of the running score.
OonScorer_score_FromWeighted(c, candidate, is_oon) ==
    IF is_oon
    THEN [candidate EXCEPT !.oon_multiplier = c.oon.multiplier,
                           !.score = Mul(candidate.weighted_score, c.oon.multiplier)]
    ELSE [candidate EXCEPT !.oon_multiplier = One]

OonScorer_score(c, candidate, is_oon) ==
    IF is_oon
    THEN [candidate EXCEPT !.oon_multiplier = c.oon.multiplier,
                           !.score = Mul(@, c.oon.multiplier)]
    ELSE [candidate EXCEPT !.oon_multiplier = One]

(***************************************************************************)
(* ScoringPipeline::score (scoring/pipeline.rs), stage by stage.           *)
(***************************************************************************)
\* The element put last whatever its key.
SortInsert_Last(s, x, key) == Append(s, x)

\* slice::sort_by with the comparator b.key.partial_cmp(&a.key): a stable sort,
\* descending by the field `key`; x goes behind every element not smaller.
SortInsert(s, x, key) ==
    LET k == Cardinality({i \in 1..Len(s) : ~Lt(s[i][key], x[key])})
    IN  SubSeq(s, 1, k) \o <<x>> \o SubSeq(s, k + 1, Len(s))

RECURSIVE sort_by(_, _)
sort_by(s, key) ==
    IF s = <<>>
    THEN <<>>
    ELSE SortInsert(sort_by(SubSeq(s, 1, Len(s) - 1), key), s[Len(s)], key)

\* The first loop: weighted_score computed, the other fields reset.
WeightedStage(c, batch) ==
    [i \in 1..Len(batch) |->
        LET ws == WeightedScorer_score(c, batch[i].phoenix_scores, batch[i].video_duration)
        IN  [batch[i] EXCEPT !.weighted_score = ws,
                             !.score = ws,
                             !.diversity_multiplier = One,
                             !.oon_multiplier = One]]

\* The sort before the diversity walk left out.
SortByWeighted_Omitted(batch) == batch

SortByWeighted(batch) == sort_by(batch, "weighted_score")

DiversityStage(c, batch) == AuthorDiversityScorer_score(c, batch)

\* The discount applied, the multiplier not recorded.
OonStage_NotRecorded(c, batch) ==
    [i \in 1..Len(batch) |->
        IF batch[i].is_oon
        THEN [batch[i] EXCEPT !.score = Mul(@, c.oon.multiplier)]
        ELSE batch[i]]

OonStage(c, batch) ==
    [i \in 1..Len(batch) |-> OonScorer_score(c, batch[i], batch[i].is_oon)]

\* The final sort left out.
SortByScore_Omitted(batch) == batch

SortByScore(batch) == sort_by(batch, "score")

\* The batch after each statement of ScoringPipeline::score on `batch`.
PipelineTrace(c, batch) ==
    LET weighted == WeightedStage(c, batch)
        sorted == SortByWeighted(weighted)
        diversity == DiversityStage(c, sorted)
        oon == OonStage(c, diversity)
        ranked == SortByScore(oon)
    IN  [input |-> batch, weighted |-> weighted, sorted |-> sorted,
         diversity |-> diversity, oon |-> oon, ranked |-> ranked]

ScoringPipeline_score(c, batch) == PipelineTrace(c, batch).ranked

(***************************************************************************)
(* simulate_with_mode (lib.rs): the action model, the blending of the      *)
(* heuristic with the external (Phoenix) vector, and the batch of one.     *)
(*                                                                         *)
(* The signals computed from the text and the account (lib.rs 390-498) are *)
(* a parameter `sg` here: drawn from SignalSets under Spec, computed by    *)
(* ComputeSignals under SimSpec.                                           *)
(* exp is not rational: sigmoid is the algebraic sigmoid                   *)
(* 1/2 + x / (2 (1 + |x|)), rounded down to hundredths; like the logistic  *)
(* function it is monotone, 1/2 at 0 and stays within [0, 1].              *)
(***************************************************************************)
sigmoid(x) ==
    IF is_nan(x) THEN NaN ELSE Rat(50 + ((50 * x[1]) \div (x[2] + Abs(x[1]))), 100)

\* if value.is_nan() { return 0.0 }; value.max(0.0).min(1.0)
clamp01(value) == IF is_nan(value) THEN Zero ELSE FMin(FMax(value, Zero), One)

bool_to_f64(value) == IF value THEN One ELSE Zero

media_score(media) ==
    CASE media = "None" -> Zero
      [] media = "Image" -> Tenths(4)
      [] media = "Gif" -> Tenths(6)
      [] media = "Video" -> Tenths(8)

is_video(media) == bool_to_f64(media = "Video")

is_image(media) == bool_to_f64(media \in {"Image", "Gif"})

estimate_dwell_time(char_count, mscore, dwell_prob) ==
    LET base == Add(Rat(15, 10), Rat(char_count, 80))
        media_lift == Mul(Whole(6), mscore)
        dwell_lift == Mul(Whole(10), dwell_prob)
        estimate == Add(Add(base, media_lift), dwell_lift)
    IN  FMin(FMax(estimate, Zero), Whole(60))

\* t1 + ... + tn where each term is <<coefficient in hundredths, value>>.
Lin(terms) == SumSeq([i \in 1..Len(terms) |-> Mul(Rat(terms[i][1], 100), terms[i][2])])

\* heuristic_actions: lib.rs 494-547.
HeuristicActions(input, sg) ==
    LET ms == media_score(input.media)
        base == Add(Whole(-2), Lin(<<<<320, sg.positive_signal>>, <<140, sg.viral_lift>>,
                                     <<-220, sg.negative_risk>>>>))
        dwell == sigmoid(Add(base, Lin(<<<<20, sg.length_score>>, <<40, ms>>,
                                         <<-20, sg.link_flag>>>>)))
    IN  [like |-> sigmoid(Add(base, Lin(<<<<60, ms>>, <<20, FMax(sg.sentiment, Zero)>>>>))),
         reply |-> sigmoid(Add(base, Lin(<<<<-20, ms>>, <<60, sg.has_question>>,
                                           <<30, sg.controversy>>, <<20, sg.cta_reply>>>>))),
         repost |-> sigmoid(Add(base, Lin(<<<<60, sg.shareability>>, <<30, sg.novelty>>,
                                            <<-30, sg.link_flag>>, <<10, sg.cta_share>>>>))),
         quote |-> sigmoid(Add(base, Lin(<<<<40, sg.controversy>>, <<20, sg.novelty>>>>))),
         click |-> sigmoid(Add(base, Lin(<<<<90, sg.link_flag>>, <<20, sg.hook>>>>))),
         profile_click |-> sigmoid(Add(base, Lin(<<<<50, sg.author_quality>>,
                                                   <<20, sg.novelty>>>>))),
         video_view |-> sigmoid(Add(base, Lin(<<<<120, is_video(input.media)>>,
                                                <<20, sg.hook>>>>))),
         photo_expand |-> sigmoid(Add(base, Lin(<<<<100, is_image(input.media)>>,
                                                  <<10, sg.hook>>>>))),
         share |-> sigmoid(Add(base, Lin(<<<<50, sg.shareability>>, <<20, sg.novelty>>>>))),
         share_dm |-> sigmoid(Add(base, Lin(<<<<35, sg.shareability>>, <<10, sg.novelty>>,
                                              <<-10, sg.link_flag>>>>))),
         share_link |-> sigmoid(Add(base, Lin(<<<<25, sg.shareability>>,
                                                <<20, sg.link_flag>>>>))),
         dwell |-> dwell,
         follow_author |-> sigmoid(Add(base, Lin(<<<<60, sg.author_quality>>,
                                                   <<20, sg.hook>>>>))),
         quoted_click |-> sigmoid(Add(base, Lin(<<<<40, sg.controversy>>, <<20, sg.hook>>,
                                                  <<10, sg.novelty>>>>))),
         not_interested |-> sigmoid(Add(Whole(-1), Lin(<<<<220, sg.negative_risk>>,
                                                         <<60, sg.topic_saturation>>,
                                                         <<-80, sg.audience_alignment>>>>))),
         block |-> sigmoid(Add(Whole(-2), Lin(<<<<260, sg.negative_risk>>,
                                                <<60, sg.controversy>>>>))),
         mute |-> sigmoid(Add(Rat(-18, 10), Lin(<<<<230, sg.negative_risk>>,
                                                  <<80, sg.topic_saturation>>>>))),
         report |-> sigmoid(Add(Rat(-24, 10), Lin(<<<<280, sg.negative_risk>>,
                                                    <<60, sg.controversy>>>>))),
         dwell_time |-> estimate_dwell_time(input.char_count, ms, dwell)]

\* The two weights of the interpolation exchanged.
blend_prob_Swapped(a, b, weight) == clamp01(Add(Mul(a, weight), Mul(b, Sub(One, weight))))

blend_prob(a, b, weight) == clamp01(Add(Mul(a, Sub(One, weight)), Mul(b, weight)))

\* The dwell time clamped like a probability.
blend_value_Clamped(a, b, weight) == clamp01(Add(Mul(a, Sub(One, weight)), Mul(b, weight)))

blend_value(a, b, weight) == Add(Mul(a, Sub(One, weight)), Mul(b, weight))

blend_actions(base, overlay, weight) ==
    [f \in ActionFields |->
        IF f = "dwell_time"
        THEN blend_value(base[f], overlay[f], weight)
        ELSE blend_prob(base[f], overlay[f], weight)]

\* ScoringMode: Heuristic | Phoenix | Hybrid { phoenix_weight }.
Heuristic == <<"Heuristic">>

Phoenix == <<"Phoenix">>

Hybrid(phoenix_weight) == <<"Hybrid", phoenix_weight>>

\* No fallback: a missing external vector is read as all zeros.
SelectActions_NoFallback(heuristic_actions, scoring_mode, phoenix_actions) ==
    LET external == IF phoenix_actions # None THEN phoenix_actions[1] ELSE empty_actions
    IN  CASE scoring_mode[1] = "Heuristic" -> heuristic_actions
          [] scoring_mode[1] = "Phoenix" -> external
          [] scoring_mode[1] = "Hybrid" ->
                blend_actions(heuristic_actions, external, scoring_mode[2])

\* The match on scoring_mode, lib.rs 549-561.
SelectActions(heuristic_actions, scoring_mode, phoenix_actions) ==
    CASE scoring_mode[1] = "Heuristic" -> heuristic_actions
      [] scoring_mode[1] = "Phoenix" ->
            IF phoenix_actions # None THEN phoenix_actions[1] ELSE heuristic_actions
      [] scoring_mode[1] = "Hybrid" ->
            IF phoenix_actions # None
            THEN blend_actions(heuristic_actions, phoenix_actions[1], scoring_mode[2])
            ELSE heuristic_actions

derive_video_duration(input) ==
    IF input.video_duration_seconds # None
    THEN Some(FMax(input.video_duration_seconds[1], Zero))
    ELSE IF input.media = "Video" THEN Some(Whole(15)) ELSE None

\* The fields of SimulationOutput that come from the blended vector and the
\* pipeline (lib.rs 549-585, 637-658).
simulate_with_mode(input, sg, scoring_mode, phoenix_actions, scoring_config) ==
    LET heuristic_actions == HeuristicActions(input, sg)
        actions == SelectActions(heuristic_actions, scoring_mode, phoenix_actions)
        batch == <<ScoredCandidate_new("post", "author", input.is_oon,
                                       derive_video_duration(input), actions)>>
        scored == ScoringPipeline_score(scoring_config, batch)
        candidate == IF scored # <<>>
                     THEN scored[Len(scored)]
                     ELSE ScoredCandidate_new("post", "author", FALSE, None, actions)
    IN  [scoring_mode |-> scoring_mode,
         weighted_score |-> candidate.weighted_score,
         diversity_multiplier |-> candidate.diversity_multiplier,
         oon_multiplier |-> candidate.oon_multiplier,
         final_score |-> candidate.score,
         actions |-> actions,
         phoenix_actions |-> phoenix_actions]

(***************************************************************************)
(* The signals of simulate_with_mode (lib.rs 390-498) computed from the    *)
(* input.  The text features extract_text_features returns are fields of   *)
(* the input record, next to those of SimulatorInput.  The model keeps two *)
(* decimals of every signal (Hundredths), where f64 keeps 53 bits; exp and *)
(* log10 have rational stand-ins of the same shape: gaussian is            *)
(* 1 / (1 + z^2), 1 at the centre and falling to 0 on both sides, log10 is *)
(* exact at the powers of ten and linear between them.                     *)
(***************************************************************************)
\* x rounded down to a multiple of 1/100.
Hundredths(x) ==
    IF is_nan(x)
    THEN NaN
    ELSE Rat(100 * (x[1] \div x[2]) + ((100 * (x[1] % x[2])) \div x[2]), 100)

gaussian(x, center, width) ==
    IF Le(width, Zero)
    THEN Zero
    ELSE LET z == Mul(Sub(x, center), <<width[2], width[1]>>)
             q == Add(One, Mul(z, z))
         IN  IF is_nan(q) THEN NaN ELSE Hundredths(<<q[2], q[1]>>)

RECURSIVE Log10From(_, _, _)
Log10From(value, k, p) ==
    IF Lt(value, Whole(10 * p))
    THEN Hundredths(Add(Whole(k), Mul(Sub(value, Whole(p)), Rat(1, 9 * p))))
    ELSE Log10From(value, k + 1, 10 * p)

\* if value <= 0.0 { 0.0 } else { value.log10() }; every argument the model
\* passes is NaN or at least 1.
log10_safe(value) ==
    IF Le(value, Zero) THEN Zero
    ELSE IF is_nan(value) THEN NaN
    ELSE Log10From(value, 0, 1)

time_of_day_score(hour) ==
    LET h == Whole(IF hour < 23 THEN hour ELSE 23)
    IN  FMax(gaussian(h, Whole(9), Rat(35, 10)), gaussian(h, Whole(20), Rat(35, 10)))

blend_signal(base, overlay, weight) ==
    clamp01(Add(Mul(base, Sub(One, weight)), Mul(overlay, weight)))

blend_sentiment(base, overlay, weight) ==
    LET blended == Add(Mul(base, Sub(One, weight)), Mul(overlay, weight))
    IN  FMin(FMax(blended, Whole(-1)), One)

\* value as f64 / divisor, for a count.
Over(count, divisor) == Rat(count, divisor)

\* lib.rs 390-498: every local the rest of simulate_with_mode reads.
ComputeSignals(input, llm) ==
    LET mscore == media_score(input.media)
        has_link == IF input.has_link_override # None
                    THEN input.has_link_override[1]
                    ELSE input.urls > 0
        link_flag == bool_to_f64(has_link)
        length_score == gaussian(Whole(input.char_count), Whole(140), Whole(70))
        readability_score == gaussian(input.avg_word_len, Whole(5), Whole(2))
        exclaim_factor == FMin(Over(input.exclamations, 3), One)
        hashtag_factor == FMin(Over(input.hashtags, 5), One)
        mention_factor == FMin(Over(input.mentions, 4), One)
        spamminess ==
            Hundredths(clamp01(Lin(<<
                <<20, exclaim_factor>>, <<25, hashtag_factor>>, <<20, mention_factor>>,
                <<30, clamp01(Mul(input.uppercase_ratio, Rat(10, 4)))>>,
                <<20, link_flag>>>>)))
        base_hook ==
            clamp01(Lin(<<
                <<35, bool_to_f64(input.questions > 0)>>,
                <<20, bool_to_f64(input.exclamations > 0)>>,
                <<25, bool_to_f64(input.starts_with_number)>>,
                <<20, bool_to_f64(input.has_hook_word)>>>>))
        base_clarity ==
            Hundredths(clamp01(Lin(<<<<50, length_score>>, <<30, readability_score>>,
                                       <<20, Sub(One, spamminess)>>>>)))
        novelty0 == clamp01(input.novelty)
        timeliness == clamp01(input.timeliness)
        controversy0 == clamp01(input.controversy)
        sentiment0 == FMin(FMax(input.sentiment, Whole(-1)), One)
        hook == IF llm # None
                THEN Hundredths(blend_signal(base_hook, clamp01(llm[1].hook), Tenths(6)))
                ELSE base_hook
        clarity == IF llm # None
                   THEN Hundredths(blend_signal(base_clarity, clamp01(llm[1].clarity),
                                                Tenths(6)))
                   ELSE base_clarity
        novelty == IF llm # None
                   THEN Hundredths(blend_signal(novelty0, clamp01(llm[1].novelty), Tenths(6)))
                   ELSE novelty0
        controversy ==
            IF llm # None
            THEN Hundredths(blend_signal(controversy0, clamp01(llm[1].controversy),
                                         Tenths(5)))
            ELSE controversy0
        sentiment == IF llm # None
                     THEN blend_sentiment(sentiment0, llm[1].sentiment, Tenths(5))
                     ELSE sentiment0
        shareability0 ==
            Hundredths(clamp01(Lin(<<<<40, hook>>, <<30, novelty>>, <<20, clarity>>,
                                       <<10, bool_to_f64(input.cta_share)>>>>)))
        shareability ==
            IF llm # None
            THEN Hundredths(blend_signal(shareability0, clamp01(llm[1].shareability),
                                         Tenths(6)))
            ELSE shareability0
        content_quality ==
            Hundredths(clamp01(Lin(<<<<45, clarity>>, <<25, hook>>, <<20, novelty>>,
                                       <<10, timeliness>>>>)))
        followers_log == log10_safe(Whole(input.followers + 1))
        author_strength == Hundredths(clamp01(Mul(Sub(followers_log, Whole(2)), Rat(1, 3))))
        ratio == IF input.following = 0
                 THEN One
                 ELSE Over(input.followers, input.following)
        ratio_score == Hundredths(clamp01(Mul(log10_safe(Add(ratio, One)), Rat(1, 2))))
        age_years == Over(input.account_age_days, 365)
        age_score == Hundredths(clamp01(Mul(age_years, Rat(1, 5))))
        eng_score == Hundredths(clamp01(Mul(input.avg_engagement_rate, Rat(100, 6))))
        cadence_score == gaussian(input.posts_per_day, Whole(2), Rat(25, 10))
        verified_bonus == IF input.verified THEN Tenths(1) ELSE Zero
        author_quality ==
            Hundredths(clamp01(Add(Lin(<<<<35, author_strength>>, <<20, age_score>>,
                                           <<20, eng_score>>, <<15, ratio_score>>,
                                           <<10, cadence_score>>>>),
                                   verified_bonus)))
        topic_saturation == clamp01(input.topic_saturation)
        audience_fit == clamp01(input.audience_fit)
        audience_alignment ==
            Hundredths(clamp01(Lin(<<<<60, audience_fit>>,
                                       <<20, Sub(One, topic_saturation)>>,
                                       <<20, ratio_score>>>>)))
        negative_sentiment == FMax(Neg(sentiment), Zero)
        caps_risk == Mul(clamp01(Mul(input.uppercase_ratio, Rat(100, 35))), Tenths(2))
        negative_risk ==
            Hundredths(clamp01(Add(Lin(<<<<40, controversy>>, <<25, spamminess>>,
                                           <<15, negative_sentiment>>,
                                           <<10, topic_saturation>>>>),
                                   caps_risk)))
        positive_signal ==
            Hundredths(clamp01(Lin(<<<<40, content_quality>>, <<35, author_quality>>,
                                       <<25, audience_alignment>>>>)))
        viral_lift ==
            Hundredths(clamp01(Lin(<<<<50, hook>>, <<30, novelty>>, <<20, mscore>>>>)))
    IN  [positive_signal |-> positive_signal, viral_lift |-> viral_lift,
         negative_risk |-> negative_risk, length_score |-> length_score,
         link_flag |-> link_flag, sentiment |-> sentiment,
         has_question |-> bool_to_f64(input.questions > 0),
         controversy |-> controversy, cta_reply |-> bool_to_f64(input.cta_reply),
         shareability |-> shareability, novelty |-> novelty,
         cta_share |-> bool_to_f64(input.cta_share), hook |-> hook,
         author_quality |-> author_quality, topic_saturation |-> topic_saturation,
         audience_alignment |-> audience_alignment, clarity |-> clarity,
         timeliness |-> timeliness, content_quality |-> content_quality,
         media_score |-> mscore]

\* The threshold tests written with <= instead of <.
tier_from_score_UpperInclusive(score) ==
    IF Le(score, Whole(35)) THEN "Low"
    ELSE IF Le(score, Whole(55)) THEN "Moderate"
    ELSE IF Le(score, Whole(75)) THEN "High"
    ELSE IF Le(score, Whole(90)) THEN "VeryHigh"
    ELSE "Breakout"

\* ViralityTier of a composite score; a NaN score fails every test and falls
\* through to the last branch.
tier_from_score(score) ==
    IF Lt(score, Whole(35)) THEN "Low"
    ELSE IF Lt(score, Whole(55)) THEN "Moderate"
    ELSE IF Lt(score, Whole(75)) THEN "High"
    ELSE IF Lt(score, Whole(90)) THEN "VeryHigh"
    ELSE "Breakout"

(***************************************************************************)
(* Suggestions.  A text is a sequence of characters; a character is the    *)
(* pair <<letter, "upper">>, <<letter, "lower">> or <<0, "space">>, letters *)
(* being numbered.  The literal of rule k of build_suggestions is the      *)
(* capitalised two-word text "Wk wk": the sixteen literals differ from     *)
(* each other after normalisation, as the sixteen of the source do.        *)
(***************************************************************************)
Space == <<0, "space">>

Upper(letter) == <<letter, "upper">>

Lower(letter) == <<letter, "lower">>

SuggestionText(rule) == <<Upper(rule), Space, Lower(rule)>>

to_lowercase(value) ==
    [i \in 1..Len(value) |-> IF value[i] = Space THEN Space ELSE Lower(value[i][1])]

\* The words of value: its maximal runs of characters other than whitespace.
RECURSIVE split_whitespace(_)
split_whitespace(value) ==
    IF value = <<>> THEN <<>>
    ELSE IF value[1] = Space THEN split_whitespace(Tail(value))
    ELSE LET n == IF \E i \in 1..Len(value) : value[i] = Space
                  THEN (CHOOSE i \in 1..Len(value) :
                            /\ value[i] = Space
                            /\ \A j \in 1..(i - 1) : value[j] # Space) - 1
                  ELSE Len(value)
         IN  <<SubSeq(value, 1, n)>> \o split_whitespace(SubSeq(value, n + 1, Len(value)))

RECURSIVE join(_, _)
join(words, sep) ==
    IF words = <<>> THEN <<>>
    ELSE IF Len(words) = 1 THEN words[1]
    ELSE words[1] \o sep \o join(Tail(words), sep)

\* Lower-casing alone: whitespace is kept as it is.
normalize_text_KeepWhitespace(value) == to_lowercase(value)

normalize_text(value) == join(split_whitespace(to_lowercase(value)), <<Space>>)

\* The rules of build_suggestions in source order: whether rule k pushes.
SuggestionRule(k, input, signals, actions, weighted_score) ==
    CASE k = 1 -> input.char_count < 50
      [] k = 2 -> input.char_count > 260
      [] k = 3 -> input.hashtags > 3
      [] k = 4 -> input.mentions > 2
      [] k = 5 -> IF input.has_link_override # None
                  THEN input.has_link_override[1]
                  ELSE input.urls > 0
      [] k = 6 -> input.media = "None" /\ input.char_count < 160
      [] k = 7 -> Lt(signals.hook, Rat(35, 100))
      [] k = 8 -> Lt(signals.shareability, Tenths(4))
      [] k = 9 -> Lt(signals.clarity, Tenths(5))
      [] k = 10 -> Lt(Tenths(3), input.uppercase_ratio)
      [] k = 11 -> Lt(Rat(55, 100), signals.negative_risk)
      [] k = 12 -> Lt(Tenths(6), input.topic_saturation)
      [] k = 13 -> Lt(input.audience_fit, Tenths(5))
      [] k = 14 -> Lt(signals.time_score, Tenths(4))
      [] k = 15 -> Lt(weighted_score, Tenths(8))
      [] k = 16 -> Lt(actions.reply, Rat(2, 100)) /\ input.questions = 0

build_suggestions(input, signals, actions, weighted_score) ==
    LET fired == SelectSeq([k \in 1..16 |-> k],
                           LAMBDA k : SuggestionRule(k, input, signals, actions,
                                                     weighted_score))
    IN  [i \in 1..Len(fired) |-> SuggestionText(fired[i])]

\* The loop of merge_suggestions from extras[i] on; seen holds the normalised
\* texts of base.
RECURSIVE MergeWalk(_, _, _, _)
MergeWalk(base, seen, extras, i) ==
    IF i > Len(extras)
    THEN base
    ELSE LET normalized == normalize_text(extras[i])
         IN  IF normalized = <<>> \/ normalized \in seen
             THEN MergeWalk(base, seen, extras, i + 1)
             ELSE MergeWalk(Append(base, extras[i]), seen \cup {normalized}, extras, i + 1)

\* base after merge_suggestions(&mut base, extras).
merge_suggestions(base, extras) ==
    LET seen == {normalize_text(base[i]) : i \in 1..Len(base)}
        merged == MergeWalk(base, seen, extras, 1)
    IN  IF Len(merged) > 10 THEN SubSeq(merged, 1, 10) ELSE merged

(***************************************************************************)
(* Reach, rates, composite score and the whole SimulationOutput            *)
(* (lib.rs 587-658).  Products of reach keep two decimals.                 *)
(***************************************************************************)
positive_action_probs(actions) ==
    <<actions.like, actions.reply, actions.repost, actions.quote, actions.share,
      actions.share_dm, actions.share_link, actions.click, actions.profile_click,
      actions.follow_author, actions.video_view, actions.photo_expand,
      actions.quoted_click>>

action_volume_rate(actions) == SumSeq(positive_action_probs(actions))

RECURSIVE NoneProbability(_)
NoneProbability(probs) ==
    IF probs = <<>>
    THEN One
    ELSE Hundredths(Mul(NoneProbability(SubSeq(probs, 1, Len(probs) - 1)),
                        Sub(One, clamp01(probs[Len(probs)]))))

unique_engagement_rate(actions) ==
    clamp01(Sub(One, NoneProbability(positive_action_probs(actions))))

\* raw of lib.rs 613.
CompositeRaw(core, impressions_total) ==
    Add(Mul(Sub(core.final_score, One), Tenths(8)),
        Mul(Sub(log10_safe(Add(impressions_total, One)), Whole(3)), Tenths(4)))

\* lib.rs 632-635.
Suggestions(local, llm) ==
    IF llm # None THEN merge_suggestions(local, llm[1].suggestions) ELSE local

\* lib.rs 587-658: the SimulationOutput built from the locals sg of
\* lib.rs 390-498 and the fields core of lib.rs 549-585.
SimulationOutputFrom(input, llm, sg, core, scoring_mode, phoenix_actions) ==
    LET time_score == time_of_day_score(input.hour_of_day)
        active_fraction == Add(Rat(15, 1000), Mul(Rat(8, 100), time_score))
        impressions_in ==
            Hundredths(Mul(Mul(Whole(input.followers), active_fraction),
                           FMax(Add(Tenths(6), Mul(Tenths(4), sg.audience_alignment)),
                                Zero)))
        oon_seed == Add(Whole(300), Mul(Whole(1400), sg.positive_signal))
        oon_reach_multiplier ==
            Add(One, Mul(Hundredths(clamp01(Mul(Sub(core.weighted_score, One), Rat(1, 3)))),
                         Whole(4)))
        product ==
            Hundredths(Mul(
                Hundredths(Mul(
                    Hundredths(Mul(Hundredths(Mul(oon_seed, oon_reach_multiplier)),
                                   Add(Tenths(5), Mul(Tenths(5), sg.content_quality)))),
                    Sub(One, Mul(Tenths(7), sg.topic_saturation)))),
                Sub(One, Mul(Tenths(5), sg.negative_risk))))
        impressions_oon == IF is_nan(product) \/ Lt(product, Zero) THEN Zero ELSE product
        impressions_total == Add(impressions_in, impressions_oon)
        volume_rate == action_volume_rate(core.actions)
        unique_rate == unique_engagement_rate(core.actions)
        score == Mul(Whole(100), sigmoid(CompositeRaw(core, impressions_total)))
        signals == [length_score |-> sg.length_score, clarity |-> sg.clarity,
                    hook |-> sg.hook, novelty |-> sg.novelty,
                    timeliness |-> sg.timeliness, shareability |-> sg.shareability,
                    content_quality |-> sg.content_quality,
                    author_quality |-> sg.author_quality,
                    audience_alignment |-> sg.audience_alignment,
                    negative_risk |-> sg.negative_risk, media_score |-> sg.media_score,
                    time_score |-> time_score]
        local == build_suggestions(input, signals, core.actions, core.weighted_score)
    IN  [score |-> score,
         tier |-> tier_from_score(score),
         scoring_mode |-> scoring_mode,
         weighted_score |-> core.weighted_score,
         diversity_multiplier |-> core.diversity_multiplier,
         oon_multiplier |-> core.oon_multiplier,
         final_score |-> core.final_score,
         impressions_in |-> impressions_in,
         impressions_oon |-> impressions_oon,
         impressions_total |-> impressions_total,
         expected_unique_engagements |-> Hundredths(Mul(impressions_total, unique_rate)),
         expected_action_volume |->
             Hundredths(Mul(impressions_total, Hundredths(volume_rate))),
         unique_engagement_rate |-> unique_rate,
         action_volume_rate |-> volume_rate,
         actions |-> core.actions,
         phoenix_actions |-> phoenix_actions,
         signals |-> signals,
         suggestions |-> Suggestions(local, llm),
         llm |-> llm]

\* The element of a singleton set.
TheOne(S) == CHOOSE x \in S : TRUE

\* simulate_with_mode(input, llm, _, scoring_mode, phoenix_actions,
\* scoring_config): the SimulationOutput it returns, llm_trace left out.  The
\* locals are computed once, in source order, and bound as values.
SimulationOutput(input, llm, scoring_mode, phoenix_actions, scoring_config) ==
    TheOne({TheOne({SimulationOutputFrom(input, llm, sg, core, scoring_mode,
                                         phoenix_actions) :
                       core \in {simulate_with_mode(input, sg, scoring_mode,
                                                    phoenix_actions, scoring_config)}}) :
               sg \in {ComputeSignals(input, llm)}})

(***************************************************************************)
(* Bounds and the inputs the model draws.                                  *)
(***************************************************************************)
\* Longest batch handed to the pipeline.
MaxBatch == 3

Unit(f) == [empty_actions EXCEPT ![f] = One]

\* What a candidate of a batch carries: an action vector and a video duration.
\* Raw sums under the default weights: 1.0, 0.8 (0.3 when the video is shorter
\* than the threshold) and -5.0.
Contents ==
    {<<Unit("like"), None>>,
     <<[empty_actions EXCEPT !.like = Tenths(3), !.video_view = One], Some(Whole(8))>>,
     <<Unit("block"), None>>}

Authors == {"a", "b"}

Protos == [author_id : Authors, is_oon : BOOLEAN, content : Contents]

\* Every batch of at most MaxBatch candidates as the caller builds it with
\* ScoredCandidate::new; post_id is the position in the caller's list.
Batches ==
    UNION {{[i \in 1..n |->
                ScoredCandidate_new(i, ps[i].author_id, ps[i].is_oon,
                                    ps[i].content[2], ps[i].content[1])] :
            ps \in [1..n -> Protos]} : n \in 0..MaxBatch}

PipelineConfigs ==
    {DefaultConfig,
     Config(DefaultWeights, Whole(6), Zero, Tenths(5), Tenths(1), Tenths(5)),
     Config(TunedWeights, Whole(10), Whole(1), One, Zero, Tenths(12)),
     Config(DefaultWeights, Whole(6), Whole(10), Zero, Tenths(15), Tenths(8))}

\* Action vectors for direct calls of WeightedScorer::score: one per action,
\* the vector of the test weighted_scorer_uses_new_actions, and a mixed one.
WeightedVectors ==
    {Unit(f) : f \in ActionFields}
        \cup {[empty_actions EXCEPT !.share_dm = One, !.dwell_time = Whole(2)],
              [f \in ActionFields |-> Tenths(5)]}

Durations == {None, Some(Whole(4)), Some(Whole(6)), Some(Whole(8))}

WeightedConfigs ==
    {Config(w, Whole(6), off, Tenths(7), Tenths(1), Tenths(8)) :
        w \in {DefaultWeights, TunedWeights}, off \in {Zero, One, Whole(10)}}

\* Signals as lib.rs 390-493 leave them: each within [0, 1], sentiment within
\* [-1, 1], the flags 0 or 1.
SignalSets ==
    {[positive_signal |-> Zero, viral_lift |-> Zero, negative_risk |-> One,
      length_score |-> Zero, link_flag |-> One, sentiment |-> Whole(-1),
      has_question |-> Zero, controversy |-> One, cta_reply |-> Zero,
      shareability |-> Zero, novelty |-> Zero, cta_share |-> Zero, hook |-> Zero,
      author_quality |-> Zero, topic_saturation |-> One, audience_alignment |-> Zero],
     [positive_signal |-> Tenths(5), viral_lift |-> Tenths(3), negative_risk |-> Tenths(2),
      length_score |-> Tenths(4), link_flag |-> Zero, sentiment |-> Tenths(1),
      has_question |-> One, controversy |-> Tenths(3), cta_reply |-> Zero,
      shareability |-> Tenths(4), novelty |-> Tenths(5), cta_share |-> Zero,
      hook |-> Tenths(3), author_quality |-> Tenths(4), topic_saturation |-> Tenths(5),
      audience_alignment |-> Tenths(6)],
     [positive_signal |-> One, viral_lift |-> One, negative_risk |-> Zero,
      length_score |-> One, link_flag |-> Zero, sentiment |-> One,
      has_question |-> One, controversy |-> Zero, cta_reply |-> One,
      shareability |-> One, novelty |-> One, cta_share |-> One, hook |-> One,
      author_quality |-> One, topic_saturation |-> Zero, audience_alignment |-> One]}

MediaTypes == {"None", "Image", "Video", "Gif"}

CharCounts == {0, 140, 5000}

SimInputs ==
    [char_count : CharCounts, media : MediaTypes, is_oon : BOOLEAN,
     video_duration_seconds : {None, Some(Whole(4))}]

\* Vectors an external ranking service may return: one within range, one with
\* probabilities and dwell time above range, one with entries below range.
PhoenixVectors ==
    {[f \in ActionFields |-> IF f = "dwell_time" THEN Whole(20) ELSE Tenths(9)],
     [f \in ActionFields |->
        CASE f = "dwell_time" -> Whole(200)
          [] f = "like" -> Tenths(15)
          [] OTHER -> Tenths(2)],
     [f \in ActionFields |->
        CASE f = "dwell_time" -> Whole(-5)
          [] f = "block" -> Tenths(-5)
          [] OTHER -> Tenths(1)]}

ScoringModes == {Heuristic, Phoenix, Hybrid(Zero), Hybrid(Tenths(5)), Hybrid(One)}

SimConfigs ==
    {DefaultConfig,
     Config(TunedWeights, Whole(10), Zero, Tenths(5), Tenths(3), Tenths(5))}

\* Composite scores handed to tier_from_score: both sides of every threshold,
\* the ends of the scale, values off the scale and NaN.
TierScores ==
    {Whole(-5), Zero, Whole(20), Rat(34999, 1000), Whole(35), Rat(35001, 1000),
     Rat(54999, 1000), Whole(55), Rat(74999, 1000), Whole(75), Whole(80),
     Rat(89999, 1000), Whole(90), Whole(100), Whole(120), NaN}

\* External vectors, one of them with NaN entries.
ExternalVectors ==
    PhoenixVectors
        \cup {[f \in ActionFields |->
                 CASE f \in {"like", "dwell_time"} -> NaN
                   [] OTHER -> Tenths(4)]}

\* Heuristic vectors handed to blend_actions on its own: probabilities as the
\* sigmoid leaves them, a dwell time as estimate_dwell_time leaves it.
BlendBases ==
    {[f \in ActionFields |-> IF f = "dwell_time" THEN Whole(12) ELSE h] :
        h \in {Zero, Tenths(3), One}}

BlendWeights == {Zero, Rat(1, 4), Tenths(5), Rat(3, 4), One}

\* SimulatorInput::default() with the features of a 140-character post that
\* asks a question.
DefaultInput ==
    [char_count |-> 140, hashtags |-> 1, mentions |-> 0, urls |-> 0, questions |-> 1,
     exclamations |-> 0, uppercase_ratio |-> Tenths(1), avg_word_len |-> Whole(5),
     starts_with_number |-> FALSE, has_hook_word |-> TRUE, cta_share |-> FALSE,
     cta_reply |-> TRUE,
     media |-> "None", is_oon |-> FALSE, video_duration_seconds |-> None,
     has_link_override |-> None, followers |-> 1000, following |-> 500,
     account_age_days |-> 365, avg_engagement_rate |-> Rat(2, 100),
     posts_per_day |-> Whole(2), verified |-> FALSE, hour_of_day |-> 12,
     novelty |-> Tenths(5), timeliness |-> Tenths(5), topic_saturation |-> Tenths(5),
     audience_fit |-> Tenths(6), controversy |-> Tenths(3), sentiment |-> Tenths(1)]

\* A short shouting post with hashtags, mentions and a link, from a new
\* account, posted at night, with inputs beyond their ranges.
SpamInput ==
    [char_count |-> 40, hashtags |-> 4, mentions |-> 3, urls |-> 1, questions |-> 0,
     exclamations |-> 3, uppercase_ratio |-> Tenths(5), avg_word_len |-> Whole(9),
     starts_with_number |-> FALSE, has_hook_word |-> FALSE, cta_share |-> FALSE,
     cta_reply |-> FALSE,
     media |-> "None", is_oon |-> TRUE, video_duration_seconds |-> None,
     has_link_override |-> None, followers |-> 0, following |-> 0,
     account_age_days |-> 0, avg_engagement_rate |-> Zero,
     posts_per_day |-> Whole(40), verified |-> FALSE, hour_of_day |-> 3,
     novelty |-> Tenths(-5), timeliness |-> Zero, topic_saturation |-> Tenths(9),
     audience_fit |-> Tenths(1), controversy |-> Tenths(15), sentiment |-> Whole(-3)]

\* A video post of a large verified account at a peak hour.
VideoInput ==
    [char_count |-> 200, hashtags |-> 0, mentions |-> 0, urls |-> 1, questions |-> 1,
     exclamations |-> 1, uppercase_ratio |-> Zero, avg_word_len |-> Whole(5),
     starts_with_number |-> TRUE, has_hook_word |-> TRUE, cta_share |-> TRUE,
     cta_reply |-> TRUE,
     media |-> "Video", is_oon |-> FALSE, video_duration_seconds |-> Some(Whole(30)),
     has_link_override |-> Some(FALSE), followers |-> 10000, following |-> 100,
     account_age_days |-> 3650, avg_engagement_rate |-> Rat(6, 100),
     posts_per_day |-> Whole(2), verified |-> TRUE, hour_of_day |-> 9,
     novelty |-> One, timeliness |-> One, topic_saturation |-> Zero,
     audience_fit |-> One, controversy |-> Zero, sentiment |-> One]

BaseInputs == {DefaultInput, SpamInput, VideoInput}

\* The f64 fields of SimulatorInput.
FloatInputs ==
    {"novelty", "timeliness", "topic_saturation", "audience_fit", "controversy",
     "sentiment", "avg_engagement_rate", "posts_per_day"}

\* Each base input, and each with one f64 field NaN.
FullInputs ==
    BaseInputs \cup {[i EXCEPT ![f] = NaN] : i \in BaseInputs, f \in FloatInputs}

\* Texts an LlmScore may suggest: two new ones, a respelling of the first,
\* the literal of rule 6 respelt, an empty and a blank text.
NewText == <<Upper(17), Space, Lower(17)>>

NewTextRespelt == <<Space, Lower(17), Space, Space, Upper(17), Space>>

OtherText == <<Lower(18)>>

LocalRespelt == <<Lower(6), Space, Space, Upper(6)>>

BlankText == <<Space, Space>>

ExternalTexts == {NewText, NewTextRespelt, OtherText, LocalRespelt, BlankText, <<>>}

\* Most suggestions handed to merge_suggestions on its own.
MaxExtras == 3

\* Lists build_suggestions returns: the literals of the rules that fired, in
\* rule order; the longest has twelve entries.
LocalLists ==
    {[i \in 1..Len(rules) |-> SuggestionText(rules[i])] :
        rules \in {<<>>, <<6>>, <<1, 6, 7>>, <<1, 3, 4, 5, 6, 7, 8, 9, 10>>,
                   <<1, 3, 4, 5, 6, 7, 8, 10, 12, 13, 14, 15>>}}

ExtrasLists == UNION {[1..n -> ExternalTexts] : n \in 0..MaxExtras}

\* LlmScore values: within range, above, below, and NaN.
LlmScores ==
    {[hook |-> Tenths(8), clarity |-> Tenths(8), novelty |-> Tenths(8),
      shareability |-> Tenths(8), controversy |-> Tenths(2), sentiment |-> Tenths(5),
      suggestions |-> <<NewText>>],
     [hook |-> Tenths(15), clarity |-> Whole(2), novelty |-> Tenths(15),
      shareability |-> Whole(3), controversy |-> Tenths(15), sentiment |-> Whole(5),
      suggestions |-> <<BlankText, LocalRespelt, NewText, NewTextRespelt, OtherText>>],
     [hook |-> Tenths(-5), clarity |-> Tenths(-5), novelty |-> Tenths(-5),
      shareability |-> Tenths(-5), controversy |-> Tenths(-5), sentiment |-> Whole(-5),
      suggestions |-> <<>>],
     [hook |-> NaN, clarity |-> NaN, novelty |-> NaN, shareability |-> NaN,
      controversy |-> NaN, sentiment |-> NaN, suggestions |-> <<OtherText, OtherText>>]}

\* The calls of simulate_with_mode the model makes: every mode against every
\* external vector on the base inputs, and every input against every LlmScore
\* in Heuristic mode.
SimCalls ==
    [input : BaseInputs, llm : {None, Some(CHOOSE l \in LlmScores : l.hook = Tenths(8))},
     scoring_mode : ScoringModes,
     phoenix_actions : {None} \cup {Some(v) : v \in ExternalVectors}]
        \cup [input : FullInputs, llm : {None} \cup {Some(l) : l \in LlmScores},
              scoring_mode : {Heuristic}, phoenix_actions : {None}]

(***************************************************************************)
(* State machine.  pc names the entry point a behaviour exercises and how  *)
(* far it is: "batch"/"scored" for ScoringPipeline::score on `candidates`, *)
(* "wcall"/"wreturned" for a direct call of WeightedScorer::score,         *)
(* "sim"/"simulated" for a call of simulate_with_mode.                     *)
(***************************************************************************)
NoTrace == PipelineTrace(DefaultConfig, <<>>)

NoArgs == [actions |-> empty_actions, video_duration |-> None]

NoRet == [raw |-> Zero, score |-> Zero]

NoSim == <<>>

NoOut == <<>>

NoState == <<>>

NoReq == <<>>

InitPipeline ==
    /\ pc = "batch"
    /\ state = NoState
    /\ req = NoReq
    /\ cfg \in PipelineConfigs
    /\ candidates \in Batches
    /\ trace = NoTrace
    /\ wargs = NoArgs
    /\ wret = NoRet
    /\ sim = NoSim
    /\ out = NoOut

InitWeighted ==
    /\ pc = "wcall"
    /\ state = NoState
    /\ req = NoReq
    /\ cfg \in WeightedConfigs
    /\ wargs \in [actions : WeightedVectors, video_duration : Durations]
    /\ wret = NoRet
    /\ candidates = <<>>
    /\ trace = NoTrace
    /\ sim = NoSim
    /\ out = NoOut

InitSimulate ==
    /\ pc = "sim"
    /\ state = NoState
    /\ req = NoReq
    /\ cfg \in SimConfigs
    /\ sim \in [input : SimInputs, sg : SignalSets, scoring_mode : ScoringModes,
                 phoenix_actions : {None} \cup {Some(v) : v \in PhoenixVectors}]
    /\ out = NoOut
    /\ candidates = <<>>
    /\ trace = NoTrace
    /\ wargs = NoArgs
    /\ wret = NoRet

\* pipeline.score(&mut candidates)
Score ==
    /\ pc \in {"batch", "scored"}
    /\ trace' = PipelineTrace(cfg, candidates)
    /\ candidates' = trace'.ranked
    /\ pc' = "scored"
    /\ UNCHANGED <<state, req, cfg, wargs, wret, sim, out>>

\* scorer.score(&actions, video_duration)
WeightedCall ==
    /\ pc = "wcall"
    /\ wret' = [raw |-> RawScore(cfg, wargs.actions, wargs.video_duration),
                score |-> WeightedScorer_score(cfg, wargs.actions, wargs.video_duration)]
    /\ pc' = "wreturned"
    /\ UNCHANGED <<state, req, cfg, candidates, trace, wargs, sim, out>>

\* simulate_with_mode(&input, None, None, scoring_mode, phoenix_actions, &config)
Simulate ==
    /\ pc = "sim"
    /\ out' = simulate_with_mode(sim.input, sim.sg, sim.scoring_mode,
                                 sim.phoenix_actions, cfg)
    /\ pc' = "simulated"
    /\ UNCHANGED <<state, req, cfg, candidates, trace, wargs, wret, sim>>

Init == InitPipeline \/ InitWeighted \/ InitSimulate

Next == Score \/ WeightedCall \/ Simulate

Spec == Init /\ [][Next]_vars

(***************************************************************************)
(* The simulator's functions called on their own and simulate_with_mode    *)
(* with every input it reads: pc is "tier"/"tiered" for a call of          *)
(* tier_from_score on sim.score, "blend"/"blended" for calls of            *)
(* blend_actions on one pair of vectors under two weights, "call"/         *)
(* "returned" for a call of simulate_with_mode with every argument,        *)
(* "merge"/"merged" for a call of merge_suggestions.                       *)
(***************************************************************************)
InitTier ==
    /\ pc = "tier"
    /\ state = NoState
    /\ req = NoReq
    /\ sim \in [score : TierScores, lower : TierScores]
    /\ out = NoOut
    /\ cfg = DefaultConfig
    /\ candidates = <<>>
    /\ trace = NoTrace
    /\ wargs = NoArgs
    /\ wret = NoRet

\* tier_from_score(score), and the same for a second score to compare with.
TierCall ==
    /\ pc = "tier"
    /\ out' = [tier |-> tier_from_score(sim.score),
               lower_tier |-> tier_from_score(sim.lower)]
    /\ pc' = "tiered"
    /\ UNCHANGED <<state, req, cfg, candidates, trace, wargs, wret, sim>>

InitBlend ==
    /\ pc = "blend"
    /\ state = NoState
    /\ req = NoReq
    /\ sim \in [base : BlendBases, overlay : ExternalVectors,
                 weight : BlendWeights, lower_weight : BlendWeights]
    /\ out = NoOut
    /\ cfg = DefaultConfig
    /\ candidates = <<>>
    /\ trace = NoTrace
    /\ wargs = NoArgs
    /\ wret = NoRet

\* blend_actions(&base, &overlay, weight), and the same under a second weight.
BlendCall ==
    /\ pc = "blend"
    /\ out' = [blended |-> blend_actions(sim.base, sim.overlay, sim.weight),
               lower |-> blend_actions(sim.base, sim.overlay, sim.lower_weight)]
    /\ pc' = "blended"
    /\ UNCHANGED <<state, req, cfg, candidates, trace, wargs, wret, sim>>

InitCall ==
    /\ pc = "call"
    /\ state = NoState
    /\ req = NoReq
    /\ cfg \in SimConfigs
    /\ sim \in SimCalls
    /\ out = NoOut
    /\ candidates = <<>>
    /\ trace = NoTrace
    /\ wargs = NoArgs
    /\ wret = NoRet

\* simulate_with_mode(&input, llm, None, scoring_mode, phoenix_actions, &config)
SimulateCall ==
    /\ pc = "call"
    /\ out' = SimulationOutput(sim.input, sim.llm, sim.scoring_mode,
                               sim.phoenix_actions, cfg)
    /\ pc' = "returned"
    /\ UNCHANGED <<state, req, cfg, candidates, trace, wargs, wret, sim>>

InitMerge ==
    /\ pc = "merge"
    /\ state = NoState
    /\ req = NoReq
    /\ sim \in [base : LocalLists, extras : ExtrasLists]
    /\ out = NoOut
    /\ cfg = DefaultConfig
    /\ candidates = <<>>
    /\ trace = NoTrace
    /\ wargs = NoArgs
    /\ wret = NoRet

\* merge_suggestions(&mut base, &extras); out is base afterwards.
MergeCall ==
    /\ pc = "merge"
    /\ out' = merge_suggestions(sim.base, sim.extras)
    /\ pc' = "merged"
    /\ UNCHANGED <<state, req, cfg, candidates, trace, wargs, wret, sim>>

SimInit == InitTier \/ InitBlend \/ InitCall \/ InitMerge

SimNext == TierCall \/ BlendCall \/ SimulateCall \/ MergeCall

SimSpec == SimInit /\ [][SimNext]_vars

(***************************************************************************)
(* The configuration outside the engine (config.rs): the file              *)
(* ScoringConfig::load reads, the environment variables that select and    *)
(* override it, and the entry points of lib.rs that load it themselves.    *)
(* A ScoringConfig here carries `scoring` next to the fields of Config;    *)
(* `phoenix` (endpoint, timeout, history limit) reaches neither the engine *)
(* nor the mode and is left out.                                           *)
(***************************************************************************)
\* ScoringModeConfig and ScoringConfig::default().
ScoringModeConfig_default == [mode |-> "hybrid", phoenix_weight |-> Tenths(7)]

WithScoring(c, scoring) == [scoring |-> scoring] @@ c

ScoringConfig_default == WithScoring(DefaultConfig, ScoringModeConfig_default)

\* f64::clamp: NaN stays NaN.
f64_clamp(x, lo, hi) ==
    IF is_nan(x) THEN NaN ELSE IF Lt(x, lo) THEN lo ELSE IF Lt(hi, x) THEN hi ELSE x

\* str::to_lowercase on the mode names the model draws.
mode_to_lowercase(raw_mode) ==
    CASE raw_mode = "Phoenix" -> "phoenix"
      [] raw_mode = "HYBRID" -> "hybrid"
      [] OTHER -> raw_mode

\* ScoringModeConfig::to_mode.
to_mode(scoring) ==
    LET mode == mode_to_lowercase(scoring.mode)
    IN  CASE mode = "phoenix" -> Phoenix
          [] mode = "hybrid" -> Hybrid(f64_clamp(scoring.phoenix_weight, Zero, One))
          [] OTHER -> Heuristic

\* What a path of the file system holds: no file, a file toml::from_str
\* rejects, or a file that parses to a ScoringConfig.
Missing == <<"missing">>

Unparsable == <<"unparsable">>

Toml(config) == <<"toml", config>>

DefaultPath == "config/scoring.toml"

\* default_config_path: SCORING_CONFIG_PATH unless unset or blank.
default_config_path(env) ==
    IF env.SCORING_CONFIG_PATH # None /\ env.SCORING_CONFIG_PATH[1] # ""
    THEN env.SCORING_CONFIG_PATH[1]
    ELSE DefaultPath

\* ScoringConfig::apply_env_overrides, for SCORING_MODE.
apply_env_overrides(config, env) ==
    IF env.SCORING_MODE # None /\ env.SCORING_MODE[1] # ""
    THEN [config EXCEPT !.scoring.mode = env.SCORING_MODE[1]]
    ELSE config

\* ScoringConfig::load(None): Ok(config) as <<config>>, Err(_) as <<>>.
ScoringConfig_load(env, files) ==
    LET path == default_config_path(env)
    IN  IF files[path] = Unparsable
        THEN None
        ELSE Some(apply_env_overrides(IF files[path] = Missing
                                      THEN ScoringConfig_default
                                      ELSE files[path][2],
                                      env))

\* load_scoring_config: .unwrap_or_default().
load_scoring_config(env, files) ==
    LET loaded == ScoringConfig_load(env, files)
    IN  IF loaded = None THEN ScoringConfig_default ELSE loaded[1]

\* The arguments of a call of simulate_with_mode, llm_trace left out.
Call(input, llm, scoring_mode, phoenix_actions, scoring_config) ==
    [input |-> input, llm |-> llm, scoring_mode |-> scoring_mode,
     phoenix_actions |-> phoenix_actions, scoring_config |-> scoring_config]

\* simulate(input): the call of simulate_with_mode it makes.
simulate(input, env, files) ==
    Call(input, None, Heuristic, None, load_scoring_config(env, files))

\* simulate_with_llm(input, llm, _): the call of simulate_with_mode it makes.
simulate_with_llm(input, llm, env, files) ==
    Call(input, llm, Heuristic, None, load_scoring_config(env, files))

\* What a call of simulate_with_mode returns.
Invoke(call) ==
    SimulationOutput(call.input, call.llm, call.scoring_mode, call.phoenix_actions,
                     call.scoring_config)

(***************************************************************************)
(* The entry points called twice with the same arguments, the environment  *)
(* and the files changing between the calls: pc is "entry", "entered",     *)
(* "reentry", "reentered"; state is what surrounds the process, req the    *)
(* arguments, out the outputs returned so far.                             *)
(***************************************************************************)
AltPath == "alt/scoring.toml"

Paths == {DefaultPath, AltPath}

\* A file an operator has tuned: every part differs from the default.
TunedFile ==
    WithScoring(Config(TunedWeights, Whole(10), Zero, Tenths(5), Tenths(3), Tenths(5)),
                [mode |-> "Phoenix", phoenix_weight |-> Tenths(5)])

Envs == [SCORING_CONFIG_PATH : {None, Some(AltPath)},
         SCORING_MODE : {None, Some("heuristic")}]

FileSystems ==
    {files \in [Paths -> {Missing, Unparsable, Toml(TunedFile)}] :
        files[AltPath] # Unparsable}

Ambients == [env : Envs, files : FileSystems]

InRangeLlm == CHOOSE llm \in LlmScores : llm.sentiment = Tenths(5)

EntryCalls ==
    [entry : {"simulate"}, input : {DefaultInput, VideoInput}, llm : {None},
     scoring_mode : {Heuristic}, phoenix_actions : {None},
     scoring_config : {ScoringConfig_default}]
    \cup [entry : {"simulate_with_llm"}, input : {DefaultInput},
          llm : {None, Some(InRangeLlm)}, scoring_mode : {Heuristic},
          phoenix_actions : {None}, scoring_config : {ScoringConfig_default}]
    \cup [entry : {"simulate_with_mode"}, input : {DefaultInput}, llm : {None},
          scoring_mode : {Heuristic, Hybrid(Tenths(5))},
          phoenix_actions : {None} \cup {Some(v) : v \in PhoenixVectors},
          scoring_config : {ScoringConfig_default, TunedFile}]

InitEntry ==
    /\ pc = "entry"
    /\ state \in Ambients
    /\ req \in EntryCalls
    /\ out = <<>>
    /\ cfg = DefaultConfig
    /\ candidates = <<>>
    /\ trace = NoTrace
    /\ wargs = NoArgs
    /\ wret = NoRet
    /\ sim = NoSim

\* The call of simulate_with_mode the entry point req.entry ends in.
EntryPoint(call, ambient) ==
    CASE call.entry = "simulate" -> simulate(call.input, ambient.env, ambient.files)
      [] call.entry = "simulate_with_llm" ->
            simulate_with_llm(call.input, call.llm, ambient.env, ambient.files)
      [] OTHER ->
            Call(call.input, call.llm, call.scoring_mode, call.phoenix_actions,
                 call.scoring_config)

EntryCall ==
    /\ pc \in {"entry", "reentry"}
    /\ out' = Append(out, Invoke(EntryPoint(req, state)))
    /\ pc' = IF pc = "entry" THEN "entered" ELSE "reentered"
    /\ UNCHANGED <<state, req, cfg, candidates, trace, wargs, wret, sim>>

\* Between the calls the operator edits files and variables.
AmbientChange ==
    /\ pc = "entered"
    /\ state' \in Ambients
    /\ pc' = "reentry"
    /\ UNCHANGED <<req, cfg, candidates, trace, wargs, wret, sim, out>>

EntryNext == EntryCall \/ AmbientChange

EntrySpec == InitEntry /\ [][EntryNext]_vars

(***************************************************************************)
(* The HTTP service (server.rs, api.rs): simulate_handler, compare_handler *)
(* and update_weights over the shared AppState.scoring_config, an          *)
(* Arc<RwLock<ScoringConfig>>.  The handlers run as tasks of a             *)
(* multi-threaded runtime: a step of the model ends at an .await or at a   *)
(* statement on shared state.  The text scorer (use_ai) is off in every    *)
(* request of the model.                                                   *)
(***************************************************************************)
\* MediaType::from_str on the names the model draws: <<media>> or None.
MediaType_from_str(value) ==
    CASE value = "video" -> Some("Video")
      [] value = "photo" -> Some("Image")
      [] OTHER -> None

\* The request texts of the model: one post, whose features are those of
\* DefaultInput, and one of spaces only.
PostText == "post"

SpacesText == "   "

trim(text) == IF text = SpacesText THEN "" ELSE text

\* ApiSimulationRequest::into_input: Ok(input) as <<input>>, Err(_) as <<>>.
into_input(request) ==
    LET text == trim(IF request.text = None THEN "" ELSE request.text[1])
    IN  IF text = ""
        THEN None
        ELSE IF request.media # None /\ MediaType_from_str(request.media[1]) = None
        THEN None
        ELSE Some([DefaultInput EXCEPT
                    !.media = IF request.media = None
                              THEN @
                              ELSE MediaType_from_str(request.media[1])[1]])

\* ScoringMode::label.
label(scoring_mode) ==
    CASE scoring_mode[1] = "Heuristic" -> "heuristic"
      [] scoring_mode[1] = "Phoenix" -> "phoenix"
      [] scoring_mode[1] = "Hybrid" -> "hybrid"

NeedsPhoenix(scoring_mode) == scoring_mode[1] \in {"Phoenix", "Hybrid"}

UnknownModeWarning == "Unknown scoring_mode; using config default."

FetchWarning == "Phoenix scoring failed"

FallbackWarning == "Phoenix unavailable; falling back to heuristic scoring."

\* resolve_scoring_mode: the mode and the warnings it pushes.
resolve_scoring_mode(request, config) ==
    LET raw_mode == IF request.scoring_mode = None
                    THEN ""
                    ELSE mode_to_lowercase(request.scoring_mode[1])
        named ==
            CASE request.scoring_mode = None -> to_mode(config.scoring)
              [] raw_mode = "heuristic" -> Heuristic
              [] raw_mode = "phoenix" -> Phoenix
              [] raw_mode = "hybrid" ->
                    Hybrid(f64_clamp(IF request.phoenix_weight # None
                                     THEN request.phoenix_weight[1]
                                     ELSE config.scoring.phoenix_weight,
                                     Zero, One))
              [] OTHER -> to_mode(config.scoring)
        mode == IF request.phoenix_weight # None /\ named[1] = "Hybrid"
                THEN Hybrid(f64_clamp(request.phoenix_weight[1], Zero, One))
                ELSE named
    IN  [mode |-> mode,
         warnings |-> IF request.scoring_mode # None
                         /\ raw_mode \notin {"heuristic", "phoenix", "hybrid"}
                      THEN <<UnknownModeWarning>>
                      ELSE <<>>]

\* No fallback: the mode stays and no warning is pushed.
Fallback_KeepMode(scoring_mode, phoenix_actions, warnings) ==
    [mode |-> scoring_mode, warnings |-> warnings]

\* server.rs 255-260 and 359-364: the mode and the warnings after the fetch.
Fallback(scoring_mode, phoenix_actions, warnings) ==
    IF phoenix_actions = None /\ NeedsPhoenix(scoring_mode)
    THEN [mode |-> Heuristic, warnings |-> Append(warnings, FallbackWarning)]
    ELSE [mode |-> scoring_mode, warnings |-> warnings]

\* ApiSimulationResponse::from_output: the fields the model follows.
from_output(output, warnings) ==
    [scoring_mode |-> label(output.scoring_mode),
     final_score |-> output.final_score,
     score |-> output.score,
     phoenix_actions |-> output.phoenix_actions,
     warnings |-> warnings]

\* compare_handler, server.rs 318-326: the request's defaults for a candidate.
WithDefaults(candidate, request) ==
    [candidate EXCEPT
        !.scoring_mode = IF @ = None THEN request.scoring_mode ELSE @,
        !.phoenix_weight = IF @ = None THEN request.phoenix_weight ELSE @]

\* Most requests in flight at once.
MaxRequests == 2

ApiRequest(text, scoring_mode, phoenix_weight) ==
    [text |-> Some(text), media |-> None, scoring_mode |-> scoring_mode,
     phoenix_weight |-> phoenix_weight]

\* Bodies of POST /api/simulate: the configured mode, Phoenix by name, Hybrid
\* with a weight above range, and a text of spaces.
SimulateBodies ==
    {ApiRequest(PostText, None, None),
     ApiRequest(PostText, Some("Phoenix"), None),
     ApiRequest(PostText, Some("hybrid"), Some(Tenths(15))),
     ApiRequest(SpacesText, Some("phoenix"), None)}

\* Bodies of POST /api/simulate/compare: no candidate; a valid candidate
\* before an invalid one; two valid candidates with modes of their own.
CompareBodies ==
    {[candidates |-> <<>>, scoring_mode |-> None, phoenix_weight |-> None],
     [candidates |-> <<ApiRequest(PostText, None, None),
                       ApiRequest(SpacesText, None, None)>>,
      scoring_mode |-> Some("phoenix"), phoenix_weight |-> None],
     [candidates |-> <<[ApiRequest(PostText, Some("heuristic"), None)
                            EXCEPT !.media = Some("video")],
                       ApiRequest(PostText, Some("turbo"), None)>>,
      scoring_mode |-> Some("hybrid"), phoenix_weight |-> Some(Tenths(5))]}

\* Bodies of PUT /api/config/weights.
UpdateBodies == {[weights |-> TunedWeights], [weights |-> DefaultWeights]}

\* A handler task at its first statement.
Task(kind, body) ==
    [kind |-> kind, body |-> body, pc |-> "start", idx |-> 0, input |-> None,
     scoring_config |-> None, taken |-> 0, scoring_mode |-> Heuristic,
     phoenix_actions |-> None, fetch_failed |-> FALSE, warnings |-> <<>>,
     calls |-> <<>>, responses |-> <<>>, before |-> None, result |-> "pending"]

Tasks ==
    {Task("simulate", b) : b \in SimulateBodies}
        \cup {Task("compare", b) : b \in CompareBodies}
        \cup {Task("update_weights", b) : b \in UpdateBodies}

\* What serve() may find when it starts: config/scoring.toml absent or tuned,
\* SCORING_MODE unset or set.
ServerAmbients ==
    {a \in Ambients : /\ a.env.SCORING_CONFIG_PATH = None
                      /\ a.files[AltPath] = Missing
                      /\ a.files[DefaultPath] # Unparsable}

\* What the ranking service answers: an error, a timeout or an unreadable
\* body (all Err), or a vector.
FetchOutcomes ==
    {None, Some([f \in ActionFields |-> IF f = "dwell_time" THEN Whole(20) ELSE Tenths(9)])}

\* serve(): AppState after ScoringConfig::load(None)?, and the file at
\* scoring_config_path; versions lists the configurations the lock has
\* released, the first being the loaded one.
InitService ==
    /\ pc = "serving"
    /\ \E a \in ServerAmbients :
         LET loaded == ScoringConfig_load(a.env, a.files)[1]
         IN  state = [scoring_config |-> loaded, writer |-> None,
                      file |-> a.files[default_config_path(a.env)],
                      versions |-> <<loaded>>]
    /\ req \in [1..MaxRequests -> Tasks]
    /\ out = NoOut
    /\ cfg = DefaultConfig
    /\ candidates = <<>>
    /\ trace = NoTrace
    /\ wargs = NoArgs
    /\ wret = NoRet
    /\ sim = NoSim

\* The read lock is free for the taking: no task holds the write lock.
CanRead_Unguarded(s) == TRUE

\* RwLock::read: granted while no task holds the write guard.
CanRead(s) == s.writer = None

Done(task, result) == [task EXCEPT !.pc = "done", !.result = result]

ServiceUnchanged == UNCHANGED <<pc, cfg, candidates, trace, wargs, wret, sim, out>>

\* simulate_handler up to state.scoring_config.read() (server.rs 169-241,
\* into_input at 174) and compare_handler up to it (server.rs 310-314).
Begin(r) ==
    /\ req[r].pc = "start"
    /\ req[r].kind \in {"simulate", "compare"}
    /\ req' = [req EXCEPT ![r] =
                 IF req[r].kind = "simulate"
                 THEN IF into_input(req[r].body) = None
                      THEN Done(@, "bad_request")
                      ELSE [@ EXCEPT !.pc = "lock", !.idx = 1]
                 ELSE IF req[r].body.candidates = <<>>
                      THEN Done(@, "bad_request")
                      ELSE [@ EXCEPT !.pc = "lock", !.idx = 1]]
    /\ UNCHANGED state
    /\ ServiceUnchanged

\* let scoring_config = state.scoring_config.read().await.clone();
Snapshot(r) ==
    /\ req[r].pc = "lock"
    /\ CanRead(state)
    /\ req' = [req EXCEPT ![r].scoring_config = Some(state.scoring_config),
                          ![r].taken = Len(state.versions),
                          ![r].pc = "candidate"]
    /\ UNCHANGED state
    /\ ServiceUnchanged

\* The request a task is scoring: the body, or the candidate at idx with the
\* defaults of the compare request.
Current(task) ==
    IF task.kind = "simulate"
    THEN task.body
    ELSE WithDefaults(task.body.candidates[task.idx], task.body)

\* server.rs 242-248 and 317-352: into_input of a compare candidate, then
\* resolve_scoring_mode, up to the call of fetch_phoenix_actions.
Candidate(r) ==
    /\ req[r].pc = "candidate"
    /\ LET request == Current(req[r])
           input == into_input(request)
           resolved == resolve_scoring_mode(request, req[r].scoring_config[1])
       IN  req' = [req EXCEPT ![r] =
                     IF input = None
                     THEN Done(@, "bad_request")
                     ELSE [@ EXCEPT !.input = input,
                                    !.scoring_mode = resolved.mode,
                                    !.warnings = resolved.warnings,
                                    !.phoenix_actions = None,
                                    !.fetch_failed = FALSE,
                                    !.pc = IF NeedsPhoenix(resolved.mode)
                                           THEN "fetch"
                                           ELSE "engine"]]
    /\ UNCHANGED state
    /\ ServiceUnchanged

\* match fetch_phoenix_actions(..).await { Ok(actions) => .., Err(err) => .. }
Fetch(r) ==
    /\ req[r].pc = "fetch"
    /\ \E fetched \in FetchOutcomes :
         req' = [req EXCEPT ![r] =
                   IF fetched = None
                   THEN [@ EXCEPT !.warnings = Append(@, FetchWarning),
                                  !.fetch_failed = TRUE,
                                  !.pc = "engine"]
                   ELSE [@ EXCEPT !.phoenix_actions = fetched, !.pc = "engine"]]
    /\ UNCHANGED state
    /\ ServiceUnchanged

\* The response of a finished handler: compare_handler sorts by final_score.
Responses(task, responses) ==
    IF task.kind = "compare" THEN sort_by(responses, "final_score") ELSE responses

\* server.rs 255-269 and 359-373: the fallback, then the arguments of
\* simulate_with_mode.
EngineCall(task) ==
    Call(task.input[1], None,
         Fallback(task.scoring_mode, task.phoenix_actions, task.warnings).mode,
         task.phoenix_actions, task.scoring_config[1])

\* server.rs 270-277 and 375-398: from_output, then the next candidate or
\* the response.  calls records the mode and the configuration of each
\* invocation, and each response whether its fetch had failed and the mode
\* the engine was called in.
Scored(task, output) ==
    LET warnings == Fallback(task.scoring_mode, task.phoenix_actions,
                             task.warnings).warnings
        responses == Append(task.responses,
                            [fetch_failed |-> task.fetch_failed,
                             engine_mode |-> EngineCall(task).scoring_mode]
                                @@ from_output(output, warnings))
        last == task.kind = "simulate" \/ task.idx = Len(task.body.candidates)
    IN  [task EXCEPT !.calls = Append(@, [scoring_mode |-> EngineCall(task).scoring_mode,
                                          scoring_config |-> EngineCall(task).scoring_config]),
                     !.responses = IF last THEN Responses(task, responses) ELSE responses,
                     !.idx = IF last THEN @ ELSE @ + 1,
                     !.pc = IF last THEN "done" ELSE "candidate",
                     !.result = IF last THEN "ok" ELSE @]

\* let output = simulate_with_mode(..) and what follows it.
Engine(r) ==
    /\ req[r].pc = "engine"
    /\ req' = [req EXCEPT ![r] = Scored(@, Invoke(EngineCall(req[r])))]
    /\ UNCHANGED state
    /\ ServiceUnchanged

\* let mut config = state.scoring_config.write().await;
UpdateLock(r) ==
    /\ req[r].pc = "start"
    /\ req[r].kind = "update_weights"
    /\ state.writer = None
    /\ state' = [state EXCEPT !.writer = Some(r)]
    /\ req' = [req EXCEPT ![r].pc = "assign",
                          ![r].before = Some(state.scoring_config.weights)]
    /\ ServiceUnchanged

\* config.weights = request.weights.clone();
UpdateAssign(r) ==
    /\ req[r].pc = "assign"
    /\ state' = [state EXCEPT !.scoring_config.weights = req[r].body.weights]
    /\ req' = [req EXCEPT ![r].pc = "persist"]
    /\ ServiceUnchanged

\* config.write(path).map_err(..)?; Ok(Json(config.clone())): the file is
\* written, or the write fails and leaves the file as it was or unreadable;
\* either way the guard is dropped on return.
UpdatePersist(r) ==
    /\ req[r].pc = "persist"
    /\ \E written \in BOOLEAN, intact \in BOOLEAN :
         /\ state' = [state EXCEPT
                        !.file = IF written
                                 THEN Toml(state.scoring_config)
                                 ELSE IF intact THEN @ ELSE Unparsable,
                        !.writer = None,
                        !.versions = Append(@, state.scoring_config)]
         /\ req' = [req EXCEPT ![r] = Done(@, IF written THEN "ok" ELSE "error")]
    /\ ServiceUnchanged

ServiceNext ==
    \E r \in 1..MaxRequests :
        \/ Begin(r)
        \/ Snapshot(r)
        \/ Candidate(r)
        \/ Fetch(r)
        \/ Engine(r)
        \/ UpdateLock(r)
        \/ UpdateAssign(r)
        \/ UpdatePersist(r)

ServiceSpec == InitService /\ [][ServiceNext]_vars

(***************************************************************************)
(* ScoringPipeline::score on batches whose scores may be NaN.              *)
(*                                                                         *)
(* The comparator of both sorts is partial_cmp(..).unwrap_or(Equal): NaN   *)
(* compares Equal to every score.  With NaN and two different scores in    *)
(* one slice "compares Equal" is not transitive, so the comparator is not  *)
(* a total order; slice::sort_by then leaves the order unspecified and may *)
(* panic (std, "May panic if the implementation of compare does not        *)
(* implement a total order"), all elements remaining in the slice.         *)
(***************************************************************************)
\* Ordering::Equal from the comparator of the sorts.
ComparesEqual(a, b, key) == ~Lt(a[key], b[key]) /\ ~Lt(b[key], a[key])

\* The comparator orders the elements of s consistently.
IsTotalOrder(s, key) ==
    \A i, j, k \in 1..Len(s) :
        (ComparesEqual(s[i], s[j], key) /\ ComparesEqual(s[j], s[k], key))
            => ComparesEqual(s[i], s[k], key)

Reorderings(s) ==
    {[i \in 1..Len(s) |-> s[p[i]]] :
        p \in {q \in [1..Len(s) -> 1..Len(s)] :
                  \A i, j \in 1..Len(s) : q[i] = q[j] => i = j}}

Returned(s) == <<"returned", s>>

Panicked(s) == <<"panicked", s>>

\* What slice::sort_by may do with s.
sort_by_outcomes(s, key) ==
    IF IsTotalOrder(s, key)
    THEN {Returned(sort_by(s, key))}
    ELSE {Returned(t) : t \in Reorderings(s)} \cup {Panicked(t) : t \in Reorderings(s)}

\* An action vector whose like probability is NaN.
NanContent == <<[empty_actions EXCEPT !.like = NaN], None>>

NanProtos ==
    [author_id : {"a"}, is_oon : BOOLEAN,
     content : {<<Unit("like"), None>>, <<Unit("block"), None>>, NanContent}]

NanBatches ==
    UNION {{[i \in 1..n |->
                ScoredCandidate_new(i, ps[i].author_id, ps[i].is_oon,
                                    ps[i].content[2], ps[i].content[1])] :
            ps \in [1..n -> NanProtos]} : n \in 0..MaxBatch}

InitSort ==
    /\ pc = "nbatch"
    /\ state = NoState
    /\ req = NoReq
    /\ cfg \in {DefaultConfig,
                Config(DefaultWeights, Whole(6), Zero, Tenths(5), Tenths(1), Tenths(5))}
    /\ candidates \in NanBatches
    /\ trace = NoTrace
    /\ wargs = NoArgs
    /\ wret = NoRet
    /\ sim = NoSim
    /\ out = NoOut

\* pipeline.score(&mut candidates), each sort with every outcome it may have.
ScoreAny ==
    /\ pc = "nbatch"
    /\ \E first \in sort_by_outcomes(WeightedStage(cfg, candidates), "weighted_score") :
          IF first[1] = "panicked"
          THEN /\ candidates' = first[2]
               /\ pc' = "panicked"
          ELSE \E second \in sort_by_outcomes(
                                 OonStage(cfg, DiversityStage(cfg, first[2])), "score") :
                  /\ candidates' = second[2]
                  /\ pc' = IF second[1] = "panicked" THEN "panicked" ELSE "nscored"
    /\ trace' = [input |-> candidates]
    /\ UNCHANGED <<state, req, cfg, wargs, wret, sim, out>>

SortNext == ScoreAny

SortSpec == InitSort /\ [][SortNext]_vars

(***************************************************************************)
(* Properties.                                                             *)
(***************************************************************************)
OnlyNonzero(actions, f) ==
    actions = [empty_actions EXCEPT ![f] = One]

C2_WeightName(f) ==
    CASE f = "like" -> "favorite"
      [] f = "video_view" -> "vqv"
      [] OTHER -> f

RECURSIVE C2_SumOver(_, _, _)
C2_SumOver(fields, actions, weights) ==
    IF fields = {}
    THEN Zero
    ELSE LET f == CHOOSE x \in fields : TRUE
         IN  Add(Mul(actions[f], weights[C2_WeightName(f)]),
                 C2_SumOver(fields \ {f}, actions, weights))

\* C2: the raw sum of WeightedScorer::score is the sum of probability x weight
\* over the eighteen non-video actions, plus video_view x vqv exactly when a
\* duration is present and at least the threshold.
C2_RawSumIsWeightedSum ==
    pc = "wreturned" =>
        LET others == C2_SumOver(ActionFields \ {"video_view"}, wargs.actions, cfg.weights)
            long == /\ wargs.video_duration # None
                    /\ ~Lt(wargs.video_duration[1], cfg.weighted.vqv_duration_threshold)
        IN  wret.raw = IF long
                       THEN Add(others, Mul(wargs.actions.video_view, cfg.weights.vqv))
                       ELSE others

\* A call with a video exactly as long as the threshold: the term counts.
C2_Witness ==
    /\ pc = "wreturned"
    /\ wargs.video_duration = Some(cfg.weighted.vqv_duration_threshold)
    /\ wargs.actions = Unit("video_view")
    /\ wret.raw = cfg.weights.vqv
    /\ wret.raw # Zero

\* C3: a negative raw sum is returned as raw + score_offset, the offset added
\* once and the result left negative if it still is; a raw sum >= 0 is
\* returned unchanged; and in the pipeline the weighted score so obtained is
\* only multiplied by the two multipliers afterwards.
C3_OffsetOnce ==
    /\ pc = "wreturned" =>
          wret.score = IF Lt(wret.raw, Zero)
                       THEN Add(wret.raw, cfg.weighted.score_offset)
                       ELSE wret.raw
    /\ pc = "scored" =>
          \A i \in 1..Len(candidates) :
              LET raw == RawScore(cfg, candidates[i].phoenix_scores,
                                  candidates[i].video_duration)
                  expected == IF Lt(raw, Zero)
                              THEN Add(raw, cfg.weighted.score_offset)
                              ELSE raw
              IN  /\ candidates[i].weighted_score = expected
                  /\ candidates[i].score =
                        Mul(Mul(expected, candidates[i].diversity_multiplier),
                            candidates[i].oon_multiplier)

\* A call whose raw sum is negative and whose result, offset added, still is.
C3_Witness ==
    /\ pc = "wreturned"
    /\ Lt(wret.raw, Zero)
    /\ cfg.weighted.score_offset = One
    /\ Lt(wret.score, Zero)
    /\ wret.score # wret.raw

\* C4: in the out-of-network stage a candidate flagged out-of-network gets
\* score x configured multiplier and oon_multiplier = the multiplier, an
\* in-network candidate keeps its score and gets oon_multiplier = 1.0; no other
\* field changes and every candidate keeps its position.
C4_OonLaw ==
    pc = "scored" =>
        /\ Len(trace.oon) = Len(trace.diversity)
        /\ \A i \in 1..Len(trace.oon) :
              LET before == trace.diversity[i]
                  after == trace.oon[i]
              IN  /\ before.is_oon =>
                        /\ after.score = Mul(before.score, cfg.oon.multiplier)
                        /\ after.oon_multiplier = cfg.oon.multiplier
                  /\ ~before.is_oon =>
                        /\ after.score = before.score
                        /\ after.oon_multiplier = One
                  /\ [after EXCEPT !.score = before.score,
                                   !.oon_multiplier = before.oon_multiplier] = before

\* An out-of-network candidate discounted after the diversity stage had
\* already lowered its score.
C4_Witness ==
    /\ pc = "scored"
    /\ \E i \in 1..Len(trace.oon) :
          /\ trace.diversity[i].is_oon
          /\ trace.diversity[i].diversity_multiplier # One
          /\ trace.diversity[i].score # trace.diversity[i].weighted_score
          /\ trace.oon[i].score # trace.diversity[i].score
    /\ \E i \in 1..Len(trace.oon) : ~trace.diversity[i].is_oon

DiversityInRange(c) ==
    /\ Lt(Zero, c.diversity.decay)
    /\ Lt(c.diversity.decay, One)
    /\ Le(Zero, c.diversity.floor)
    /\ Lt(c.diversity.floor, One)

\* C5: with 0 < decay < 1 and 0 <= floor < 1, of two candidates of one author
\* with equal weighted_score the one walked second has the strictly smaller
\* diversity_multiplier, and every diversity_multiplier is >= floor.
C5_DiversityLaw ==
    (pc = "scored" /\ DiversityInRange(cfg)) =>
        /\ \A i, j \in 1..Len(trace.diversity) :
              (/\ i < j
               /\ trace.diversity[i].author_id = trace.diversity[j].author_id
               /\ trace.diversity[i].weighted_score = trace.diversity[j].weighted_score)
                  => Lt(trace.diversity[j].diversity_multiplier,
                        trace.diversity[i].diversity_multiplier)
        /\ \A i \in 1..Len(candidates) :
              Le(cfg.diversity.floor, candidates[i].diversity_multiplier)

\* Three candidates of one author with equal weighted scores, walked in turn.
C5_Witness ==
    /\ pc = "scored"
    /\ DiversityInRange(cfg)
    /\ Len(trace.diversity) = 3
    /\ \A i \in 1..3 :
          /\ trace.diversity[i].author_id = trace.diversity[1].author_id
          /\ trace.diversity[i].weighted_score = trace.diversity[1].weighted_score
    /\ Lt(trace.diversity[3].diversity_multiplier, trace.diversity[2].diversity_multiplier)

\* Position of the candidate post_id in the batch handed to the call.
InputPos(post_id) == CHOOSE i \in 1..Len(trace.input) : trace.input[i].post_id = post_id

\* Candidates of the same author walked before x: larger weighted_score, or
\* equal weighted_score and earlier in the batch handed to the call.
C6_Preceding(x) ==
    {i \in 1..Len(candidates) :
        /\ candidates[i].author_id = x.author_id
        /\ candidates[i].post_id # x.post_id
        /\ \/ Lt(x.weighted_score, candidates[i].weighted_score)
           \/ /\ candidates[i].weighted_score = x.weighted_score
              /\ InputPos(candidates[i].post_id) < InputPos(x.post_id)}

\* C6: each candidate's diversity_multiplier is (1 - floor) * decay^k + floor,
\* k being the number of candidates of the same author before it in the order
\* "descending weighted_score, ties by position in the batch"; other authors
\* and the out-of-network discount do not enter.
C6_DiversityMultiplierFormula ==
    pc = "scored" =>
        \A i \in 1..Len(candidates) :
            LET k == Cardinality(C6_Preceding(candidates[i]))
            IN  candidates[i].diversity_multiplier =
                    Add(Mul(Sub(One, cfg.diversity.floor), powi(cfg.diversity.decay, k)),
                        cfg.diversity.floor)

\* The candidate handed over first is walked last of its author: one with a
\* larger weighted score but a smaller final score, and one of another author,
\* come between.
C6_Witness ==
    /\ pc = "scored"
    /\ Len(candidates) = 3
    /\ \E i, j \in 1..3 :
          /\ InputPos(candidates[i].post_id) = 1
          /\ candidates[j].author_id = candidates[i].author_id
          /\ InputPos(candidates[j].post_id) > 1
          /\ Lt(candidates[i].weighted_score, candidates[j].weighted_score)
          /\ Lt(candidates[j].score, candidates[i].score)
          /\ candidates[i].diversity_multiplier # One
          /\ candidates[j].diversity_multiplier = One
    /\ Cardinality({candidates[i].author_id : i \in 1..3}) = 2

\* C7: the first candidate of each author in the diversity walk gets
\* diversity_multiplier = 1.0 whatever decay and floor are; and a single-post
\* simulation passes the three stages and reports diversity_multiplier = 1.0
\* and final_score = weighted_score x oon_multiplier.
C7_FirstOccurrenceIsOne ==
    /\ pc = "scored" =>
          \A i \in 1..Len(trace.diversity) :
              (\A j \in 1..(i - 1) :
                    trace.diversity[j].author_id # trace.diversity[i].author_id)
                  => trace.diversity[i].diversity_multiplier = One
    /\ pc = "simulated" =>
          /\ out.diversity_multiplier = One
          /\ out.oon_multiplier = IF sim.input.is_oon THEN cfg.oon.multiplier ELSE One
          /\ out.final_score = Mul(out.weighted_score, out.oon_multiplier)

\* A single-post simulation of an out-of-network post under a configuration
\* whose decay and floor would lower any later occurrence.
C7_Witness ==
    /\ pc = "simulated"
    /\ sim.input.is_oon
    /\ multiplier(cfg, 1) # One
    /\ out.oon_multiplier # One
    /\ out.weighted_score # Zero
    /\ out.final_score # out.weighted_score

\* C8: after ScoringPipeline::score every candidate has
\* score = weighted_score x diversity_multiplier x oon_multiplier, whatever
\* score and multipliers it held before the call.
C8_ScoreIsProduct ==
    pc = "scored" =>
        \A i \in 1..Len(candidates) :
            candidates[i].score =
                Mul(Mul(candidates[i].weighted_score, candidates[i].diversity_multiplier),
                    candidates[i].oon_multiplier)

\* A second call on a scored batch: a candidate came in with a lowered
\* diversity multiplier, a discount and a nonzero score, and leaves with
\* another diversity multiplier.
C8_Witness ==
    /\ pc = "scored"
    /\ \E i, j \in 1..Len(candidates) :
          /\ trace.input[i].post_id = candidates[j].post_id
          /\ trace.input[i].diversity_multiplier # One
          /\ trace.input[i].oon_multiplier # One
          /\ trace.input[i].score # Zero
          /\ candidates[j].diversity_multiplier # trace.input[i].diversity_multiplier
          /\ candidates[j].score # trace.input[i].score

\* C9: every action probability of SimulationOutput.actions lies in [0, 1],
\* in every scoring mode and for every external action vector.
C9_ProbabilitiesInUnitInterval ==
    pc = "simulated" =>
        \A f \in ActionFields \ {"dwell_time"} :
            /\ Le(Zero, out.actions[f])
            /\ Le(out.actions[f], One)

\* C10: the dwell-time estimate of SimulationOutput.actions lies in [0, 60],
\* in every scoring mode, for every Hybrid weight and external action vector.
C10_DwellTimeInRange ==
    pc = "simulated" =>
        /\ Le(Zero, out.actions.dwell_time)
        /\ Le(out.actions.dwell_time, Whole(60))

Tiers == <<"Low", "Moderate", "High", "VeryHigh", "Breakout">>

TierRank(tier) == CHOOSE i \in 1..Len(Tiers) : Tiers[i] = tier

\* The fields of SimulationOutput computed from the action vector: the vector,
\* the pipeline scores, the reach numbers, the composite score and the tier.
ScoredFields ==
    {"actions", "weighted_score", "diversity_multiplier", "oon_multiplier", "final_score",
     "impressions_in", "impressions_oon", "impressions_total",
     "expected_unique_engagements", "expected_action_volume", "unique_engagement_rate",
     "action_volume_rate", "score", "tier"}

Restrict(output, fields) == [f \in fields |-> output[f]]

\* C11: the composite score of every SimulationOutput is a number within
\* [0, 100] and the tier is the bucket of that score, for every input, mode,
\* configuration and external vector, NaN entries included.
C11_ScoreInRange ==
    pc = "returned" =>
        /\ Le(Zero, out.score)
        /\ Le(out.score, Whole(100))
        /\ out.tier =
              Tiers[1 + Cardinality({t \in {35, 55, 75, 90} : Le(Whole(t), out.score)})]

\* C12: without an external action vector, Phoenix mode and Hybrid mode under
\* any weight return the action vector, pipeline scores, reach numbers,
\* composite score and tier of Heuristic mode on the same input and
\* configuration.
C12_FallbackToHeuristic ==
    (pc = "returned" /\ sim.phoenix_actions = None) =>
        Restrict(out, ScoredFields) =
            Restrict(SimulationOutput(sim.input, sim.llm, Heuristic, None, cfg),
                     ScoredFields)

\* A Phoenix-mode call without a vector has returned the heuristic vector of
\* the input, which is not all zeros, and reports the mode it was given.
C12_Witness ==
    /\ pc = "returned"
    /\ sim.scoring_mode = Phoenix
    /\ sim.phoenix_actions = None
    /\ out.phoenix_actions = None
    /\ out.scoring_mode = Phoenix
    /\ Lt(Zero, out.actions.like)
    /\ out.weighted_score # Zero

\* C13: Hybrid(0.0) with an external vector present returns the action vector
\* (dwell time included), scores, reach and tier of Heuristic mode on the same
\* input and configuration, whatever the external vector.
C13_HybridZeroIsHeuristic ==
    (pc = "returned" /\ sim.scoring_mode = Hybrid(Zero) /\ sim.phoenix_actions # None) =>
        Restrict(out, ScoredFields) =
            Restrict(SimulationOutput(sim.input, sim.llm, Heuristic, None, cfg),
                     ScoredFields)

\* E with every probability clamped to [0, 1], the dwell time as it is.
ClampedVector(external) ==
    [f \in ActionFields |->
        IF f = "dwell_time" THEN external[f] ELSE clamp01(external[f])]

\* C14: Hybrid(1.0) with an external vector E returns E with every probability
\* clamped to [0, 1] as its action vector, and the scores, reach and tier of
\* Phoenix mode given that clamped vector.
C14_HybridOneIsClampedExternal ==
    (pc = "returned" /\ sim.scoring_mode = Hybrid(One) /\ sim.phoenix_actions # None) =>
        LET clamped == ClampedVector(sim.phoenix_actions[1])
        IN  /\ out.actions = clamped
            /\ Restrict(out, ScoredFields) =
                  Restrict(SimulationOutput(sim.input, sim.llm, Phoenix, Some(clamped), cfg),
                           ScoredFields)

\* A Hybrid(1.0) call whose external vector has like = 1.5 and dwell_time =
\* 200: like comes back as 1, the dwell time as 200, the heuristic values
\* being others.
C14_Witness ==
    /\ pc = "returned"
    /\ sim.scoring_mode = Hybrid(One)
    /\ sim.phoenix_actions # None
    /\ sim.phoenix_actions[1].like = Tenths(15)
    /\ out.actions.like = One
    /\ out.actions.dwell_time = Whole(200)
    /\ HeuristicActions(sim.input, ComputeSignals(sim.input, sim.llm)).like # One

\* C15: for every action probability, with heuristic value h and external
\* value e, the value blended under the larger of two weights of [0, 1] is at
\* least the one under the smaller when h <= e and at most it when h >= e,
\* and every blended value lies between h and e clamped to [0, 1].
C15_HybridMonotone ==
    (pc = "blended" /\ Le(sim.lower_weight, sim.weight)) =>
        \A f \in ActionFields \ {"dwell_time"} :
            LET h == sim.base[f]
                e == sim.overlay[f]
            IN  /\ Le(h, e) => Le(out.lower[f], out.blended[f])
                /\ Le(e, h) => Le(out.blended[f], out.lower[f])
                /\ Le(FMin(h, clamp01(e)), out.blended[f])
                /\ Le(out.blended[f], FMax(h, clamp01(e)))

\* An external value above 1 pulls the blend up strictly from weight 1/4 to
\* weight 3/4, where the clamp stops it at 1 below the external value; another
\* probability of the same call moves down.
C15_Witness ==
    /\ pc = "blended"
    /\ sim.lower_weight = Rat(1, 4)
    /\ sim.weight = Rat(3, 4)
    /\ \E f \in ActionFields \ {"dwell_time"} :
          /\ Lt(One, sim.overlay[f])
          /\ Lt(sim.base[f], out.lower[f])
          /\ Lt(out.lower[f], out.blended[f])
          /\ out.blended[f] = One
    /\ \E f \in ActionFields \ {"dwell_time"} :
          /\ Lt(sim.overlay[f], sim.base[f])
          /\ Lt(out.blended[f], out.lower[f])

\* C16: the tier of a score is the bucket numbered by how many of the
\* thresholds 35, 55, 75, 90 the score has reached (lower-inclusive), so
\* 34.999 is Low, 35.0 Moderate, 89.999 VeryHigh and 90.0 Breakout; and of two
\* scores the higher never gets the lower tier.
C16_TierThresholds ==
    (pc = "tiered" /\ ~is_nan(sim.score)) =>
        /\ out.tier =
              Tiers[1 + Cardinality({t \in {35, 55, 75, 90} : Le(Whole(t), sim.score)})]
        /\ sim.score = Rat(34999, 1000) => out.tier = "Low"
        /\ sim.score = Whole(35) => out.tier = "Moderate"
        /\ sim.score = Rat(89999, 1000) => out.tier = "VeryHigh"
        /\ sim.score = Whole(90) => out.tier = "Breakout"
        /\ Le(sim.lower, sim.score) => TierRank(out.lower_tier) <= TierRank(out.tier)

\* The call on 35.0 compared with the call on 34.999: one tier apart.
C16_Witness ==
    /\ pc = "tiered"
    /\ sim.score = Whole(35)
    /\ sim.lower = Rat(34999, 1000)
    /\ out.tier = "Moderate"
    /\ out.lower_tier = "Low"

\* C17: the suggestion list of every SimulationOutput has at most ten entries,
\* with or without an LlmScore.
C17_AtMostTenSuggestions ==
    pc = "returned" => Len(out.suggestions) <= 10

\* What two texts with one normalised text share: the lower-cased words, each
\* starting where a character other than whitespace follows whitespace or
\* nothing, and running up to the next whitespace.
C18_Words(text) ==
    LET starts == {i \in 1..Len(text) :
                      text[i][2] # "space" /\ (i = 1 \/ text[i - 1][2] = "space")}
        stop(i) == IF \A j \in i..Len(text) : text[j][2] # "space"
                   THEN Len(text)
                   ELSE (CHOOSE j \in i..Len(text) :
                            /\ text[j][2] = "space"
                            /\ \A k \in i..(j - 1) : text[k][2] # "space") - 1
        word(i) == [k \in 1..(stop(i) - i + 1) |-> text[i + k - 1][1]]
        nth(n) == CHOOSE i \in starts : Cardinality({j \in starts : j < i}) = n - 1
    IN  [n \in 1..Cardinality(starts) |-> word(nth(n))]

\* The external suggestions the claim keeps: words not empty, not those of a
\* local suggestion, not those of an earlier external one.
C18_Kept(base, extras) ==
    SelectSeq([i \in 1..Len(extras) |-> i],
              LAMBDA i :
                  /\ C18_Words(extras[i]) # <<>>
                  /\ \A k \in 1..Len(base) : C18_Words(base[k]) # C18_Words(extras[i])
                  /\ \A j \in 1..(i - 1) : C18_Words(extras[j]) # C18_Words(extras[i]))

C18_Expected(base, extras) ==
    base \o [n \in 1..Len(C18_Kept(base, extras)) |-> extras[C18_Kept(base, extras)[n]]]

\* C18 as stated: the merged list is the local suggestions in rule order
\* followed by the external ones in their order, those left out whose
\* normalised text is empty or that of an entry already kept.
C18_MergedList ==
    pc = "merged" => out = C18_Expected(sim.base, sim.extras)

\* C18 amended: the merged list is the first ten entries of that list, and no
\* two of its entries share a normalised text.
C18_MergedListCut ==
    pc = "merged" =>
        LET expected == C18_Expected(sim.base, sim.extras)
        IN  /\ out = SubSeq(expected, 1, IF Len(expected) < 10 THEN Len(expected) ELSE 10)
            /\ \A i, j \in 1..Len(out) :
                  C18_Words(out[i]) = C18_Words(out[j]) => i = j

\* Nine local suggestions merged with a respelling of one of them and two new
\* texts: the respelling is left out, the first new text is the tenth entry,
\* the second is cut.
C18_Witness ==
    /\ pc = "merged"
    /\ Len(sim.base) = 9
    /\ sim.extras = <<LocalRespelt, NewText, OtherText>>
    /\ Len(out) = 10
    /\ out[10] = NewText

\* C19: a call whose input has NaN in one of its f64 fields returns the
\* SimulationOutput of the call with 0 in that field, all else equal.
C19_NaNInputIsZero ==
    pc = "returned" =>
        \A f \in FloatInputs :
            is_nan(sim.input[f]) =>
                out = SimulationOutput([sim.input EXCEPT ![f] = Zero], sim.llm,
                                       sim.scoring_mode, sim.phoenix_actions, cfg)

\* The LlmScore with hook, clarity, novelty, shareability and controversy
\* clamped to [0, 1] and sentiment clamped to [-1, 1].
ClampedScore(score) ==
    [score EXCEPT !.hook = clamp01(@), !.clarity = clamp01(@), !.novelty = clamp01(@),
                  !.shareability = clamp01(@), !.controversy = clamp01(@),
                  !.sentiment = FMin(FMax(@, Whole(-1)), One)]

\* C20: a call with an LlmScore returns the signals and the output of the call
\* with that LlmScore clamped field by field beforehand (the echo of the
\* LlmScore itself aside); stated for scores whose sentiment is a number.
C20_ExternalScoreClampedFirst ==
    (pc = "returned" /\ sim.llm # None /\ ~is_nan(sim.llm[1].sentiment)) =>
        LET fields == DOMAIN out \ {"llm"}
        IN  Restrict(out, fields) =
                Restrict(SimulationOutput(sim.input, Some(ClampedScore(sim.llm[1])),
                                          sim.scoring_mode, sim.phoenix_actions, cfg),
                         fields)

\* C21: no public entry point (simulate, simulate_with_llm,
\* simulate_with_mode) reads scoring configuration from ambient state: two
\* calls with identical arguments return identical outputs even if the
\* environment variables or the configuration file differ between them.
C21_ExplicitArgumentsOnly ==
    pc = "reentered" => out[1] = out[2]

Range(s) == {s[i] : i \in 1..Len(s)}

Handlers == {r \in 1..MaxRequests : req[r].kind \in {"simulate", "compare"}}

\* Every response built after a failed fetch came from a Heuristic call of
\* the engine, is labelled 'heuristic' and carries the fallback warning.
FailedFetchesFallBack(r) ==
    \A i \in 1..Len(req[r].responses) :
        req[r].responses[i].fetch_failed =>
            /\ req[r].responses[i].engine_mode = Heuristic
            /\ req[r].responses[i].scoring_mode = "heuristic"
            /\ FallbackWarning \in Range(req[r].responses[i].warnings)

FetchFailed(r) == \E i \in 1..Len(req[r].responses) : req[r].responses[i].fetch_failed

\* C22: in the simulate and compare handlers, whenever the resolved mode is
\* Phoenix or Hybrid and the fetch of the external vector fails, the request is
\* still answered successfully, the engine is invoked in Heuristic mode, the
\* response's scoring_mode label is 'heuristic' and its warnings contain the
\* fallback warning; a failed fetch never produces an error response.
C22_FetchFailureAnswered ==
    pc = "serving" =>
        \A r \in Handlers :
            /\ FailedFetchesFallBack(r)
            /\ (req[r].pc = "done" /\ FetchFailed(r)) => req[r].result = "ok"

\* C22 as the code has it: after a failed fetch the candidate is scored in
\* Heuristic mode, labelled 'heuristic' and warned about; a simulate request
\* is then answered successfully, and a compare request is answered
\* successfully unless a later candidate of it fails input validation, the
\* only error response (400) there is after a failed fetch.
C22_FetchFailureScored ==
    pc = "serving" =>
        \A r \in Handlers :
            /\ FailedFetchesFallBack(r)
            /\ (req[r].pc = "done" /\ FetchFailed(r)) =>
                \/ req[r].result = "ok"
                \/ /\ req[r].result = "bad_request"
                   /\ req[r].kind = "compare"
                   /\ req[r].idx > Len(req[r].responses)
                   /\ into_input(Current(req[r])) = None

C22_Witness ==
    /\ pc = "serving"
    /\ \E r \in Handlers :
         /\ req[r].kind = "simulate"
         /\ req[r].result = "ok"
         /\ FetchFailed(r)
    /\ \E r \in Handlers :
         /\ req[r].kind = "compare"
         /\ req[r].result = "ok"
         /\ Len(req[r].responses) = 2
         /\ FetchFailed(r)

\* The probabilities of ActionProbs that are not negative-intent, in the
\* order of the struct; dwell_time, the estimate in seconds, is not one.
C23_PositiveIntent ==
    <<"like", "reply", "repost", "quote", "click", "profile_click", "video_view",
      "photo_expand", "share", "share_dm", "share_link", "dwell", "follow_author",
      "quoted_click">>

\* The product of (1 - p) over probs, kept to the decimals the model keeps.
RECURSIVE C23_Product(_)
C23_Product(probs) ==
    IF probs = <<>>
    THEN One
    ELSE Hundredths(Mul(C23_Product(SubSeq(probs, 1, Len(probs) - 1)),
                        Sub(One, probs[Len(probs)])))

\* C23: action_volume_rate is the sum of every action probability except the
\* negative-intent ones (not_interested, mute, block, report), the dwell-time
\* estimate excluded, and unique_engagement_rate is 1 minus the product of
\* (1 - p) over exactly that set.
C23_RatesOverPositiveIntent ==
    pc = "returned" =>
        LET probs == [i \in 1..Len(C23_PositiveIntent) |->
                        out.actions[C23_PositiveIntent[i]]]
        IN  /\ out.action_volume_rate = SumSeq(probs)
            /\ out.unique_engagement_rate = Sub(One, C23_Product(probs))

C25_InUnit(x) == Le(Zero, x) /\ Le(x, One)

\* The candidate at position i of the diversity walk is in-network and the
\* first of its author.
C25_FirstInNetwork(i) ==
    /\ ~trace.oon[i].is_oon
    /\ \A j \in 1..(i - 1) : trace.oon[j].author_id # trace.oon[i].author_id

\* C25: with decay, floor and the out-of-network multiplier all in [0, 1], no
\* candidate's final score exceeds its weighted_score, and no out-of-network
\* or repeated-author candidate ends above an in-network first-occurrence
\* candidate of the same weighted_score, negative weighted scores included.
C25_PenaltiesNeverRaise ==
    (/\ pc = "scored"
     /\ C25_InUnit(cfg.diversity.decay)
     /\ C25_InUnit(cfg.diversity.floor)
     /\ C25_InUnit(cfg.oon.multiplier)) =>
        /\ \A i \in 1..Len(trace.oon) :
              Le(trace.oon[i].score, trace.oon[i].weighted_score)
        /\ \A i, j \in 1..Len(trace.oon) :
              (/\ C25_FirstInNetwork(j)
               /\ ~C25_FirstInNetwork(i)
               /\ trace.oon[i].weighted_score = trace.oon[j].weighted_score)
                  => Le(trace.oon[i].score, trace.oon[j].score)

\* C26: for any score_offset >= 0, WeightedScorer.score is monotone in the raw
\* weighted sum: of two calls the one with the smaller or equal raw sum returns
\* the smaller or equal score.
C26_MonotoneInRawSum ==
    (pc = "wreturned" /\ Le(Zero, cfg.weighted.score_offset)) =>
        \A actions \in WeightedVectors, video_duration \in Durations :
            Le(wret.raw, RawScore(cfg, actions, video_duration))
                => Le(wret.score, WeightedScorer_score(cfg, actions, video_duration))

\* C27: ScoringPipeline.score is idempotent on a batch: a second call on the
\* batch the first call left keeps every candidate's weighted_score,
\* multipliers and score and the order of the batch.
C27_Idempotent ==
    [][pc = "scored" => candidates' = candidates]_vars

\* The fields ScoringPipeline::score is handed and does not write.
C28_Identity(c) ==
    <<c.post_id, c.author_id, c.is_oon, c.video_duration, c.phoenix_scores>>

C28_DistinctWeighted ==
    \A i, j \in 1..Len(trace.weighted) :
        i # j => trace.weighted[i].weighted_score # trace.weighted[j].weighted_score

\* C28: when the weighted scores of a batch are pairwise distinct, every
\* reordering of the input gives each candidate, identified by post_id, the
\* same weighted_score, multipliers and final score, and the output is a
\* permutation of the input with post_id, author_id, is_oon, video_duration
\* and the action vector unchanged.
C28_OrderIndependent ==
    (pc = "scored" /\ C28_DistinctWeighted) =>
        \A reordered \in Reorderings(trace.input) :
            \A ranked \in {ScoringPipeline_score(cfg, reordered)} :
                /\ Len(ranked) = Len(trace.input)
                /\ Range(ranked) = Range(candidates)
                /\ {C28_Identity(c) : c \in Range(ranked)}
                       = {C28_Identity(c) : c \in Range(trace.input)}
                /\ \A i, j \in 1..Len(ranked) :
                       ranked[i].post_id = ranked[j].post_id => i = j

\* A batch of three with distinct weighted scores, two of them of one author,
\* one out-of-network, handed over in another order than it is ranked.
C28_Witness ==
    /\ pc = "scored"
    /\ C28_DistinctWeighted
    /\ Len(candidates) = 3
    /\ candidates[1].post_id = 3
    /\ \E i, j \in 1..3 : i # j /\ candidates[i].author_id = candidates[j].author_id
    /\ \E i \in 1..3 : candidates[i].is_oon
    /\ \E i \in 1..3 : Lt(candidates[i].diversity_multiplier, One)

\* C29: under any interleaving of simulate and compare requests with weight
\* updates, each request computes with one configuration, the one the lock
\* held when the request took its read-locked copy: every engine call of the
\* request is handed that copy.
C29_OneSnapshot ==
    pc = "serving" =>
        \A r \in Handlers :
            req[r].scoring_config # None =>
                /\ req[r].taken \in 1..Len(state.versions)
                /\ req[r].scoring_config[1] = state.versions[req[r].taken]
                /\ \A i \in 1..Len(req[r].calls) :
                       req[r].calls[i].scoring_config = req[r].scoring_config[1]

\* A compare request that took its copy before a weight update finished and
\* made both its engine calls with it, the weights in AppState being others
\* by now.
C29_Witness ==
    /\ pc = "serving"
    /\ \E r \in Handlers :
          /\ req[r].pc = "done"
          /\ Len(req[r].calls) = 2
          /\ req[r].taken < Len(state.versions)
          /\ req[r].scoring_config[1].weights # state.scoring_config.weights

\* C30: a weight update that fails leaves the configuration as it was before
\* the request.
C30_FailedUpdateChangesNothing ==
    [][\A r \in 1..MaxRequests :
          (/\ req[r].pc = "persist"
           /\ req'[r].pc = "done"
           /\ req'[r].result = "error")
              => state'.scoring_config.weights = req[r].before[1]]_vars

====
